---- MODULE Spec2Model ----
(***************************************************************************)
(* Model of mesmo.utils.OptimizationProblem (src/mesmo/utils.py): the      *)
(* variable / constraint registries, the parameter store, the accumulator  *)
(* dictionaries a_dict .. d_dict and the standard-form compilation         *)
(* (get_a_matrix, get_b_vector, ...).                                      *)
(*                                                                         *)
(* Representation.                                                         *)
(*  - numbers are integers (the code computes in floats; every operation   *)
(*    modelled here is +, - and * on values, which integers share);        *)
(*  - a numerical value (float, flat array, 2-D array / sparse matrix) is  *)
(*    a record [dim, m]: dim is len(np.shape(value)) and m the entries as  *)
(*    a sequence of rows (a scalar is the 1x1 matrix, a flat array one     *)
(*    row);                                                                *)
(*  - a coefficient is [par, v]: par = NoPar with the literal value v, or  *)
(*    par the parameter name (the code's "type(value) is str");            *)
(*  - a pandas table is the sequence of its rows, a row a record of the    *)
(*    columns name, timestep, idx; NaN marks a missing entry;              *)
(*  - a defaultdict(list) is the sequence of its (key, item) pairs in the  *)
(*    order of the appends: dict[key] is the subsequence with that key.    *)
(***************************************************************************)
EXTENDS Integers, Sequences, FiniteSets, TLC

VARIABLES
    variables,        \* self.variables: sequence of rows, position = slot
    constraints,      \* self.constraints: sequence of rows with index label
    constraints_len,  \* self.constraints_len
    parameters,       \* self.parameters: sequence of [name, v]
    a_dict,           \* self.a_dict
    b_dict,           \* self.b_dict
    c_dict,           \* self.c_dict
    q_dict,           \* self.q_dict
    d_dict,           \* self.d_dict
    d_dict_keys,      \* the keys that self.d_dict holds (a defaultdict gains a key when read)
    x_vector,         \* self.x_vector
    mu_vector,        \* self.mu_vector
    objective,        \* self.objective
    results,          \* self.results
    duals,            \* self.duals
    calls,            \* number of define_constraint / define_objective calls made
    last              \* the call made last, its arguments and its outcome; threads

\* the attributes that solve() assigns
solution == <<x_vector, mu_vector, objective, results, duals>>

vars == <<variables, constraints, constraints_len, parameters,
          a_dict, b_dict, c_dict, q_dict, d_dict, d_dict_keys, solution, calls, last>>

\* An attribute that no statement has assigned yet, and one that holds v.
Unset == [set |-> FALSE, v |-> <<>>]
Assigned(v) == [set |-> TRUE, v |-> <<v>>]

-----------------------------------------------------------------------------
(* Bounds of the model. *)

MaxVariables == 4      \* rows of the variable table
MaxCalls == 2          \* define_constraint / define_objective calls per run

-----------------------------------------------------------------------------
(* Generic helpers on sequences. *)

Range(s) == {s[i] : i \in 1..Len(s)}

RECURSIVE SumSeq(_)
SumSeq(s) == IF s = <<>> THEN 0 ELSE s[1] + SumSeq(Tail(s))

RECURSIVE Flatten(_)
Flatten(ss) == IF ss = <<>> THEN <<>> ELSE ss[1] \o Flatten(Tail(ss))

\* tuple(range(lo, lo + n)): the slots lo .. lo + n - 1
RangeTuple(lo, n) == [i \in 1..n |-> lo + i - 1]

-----------------------------------------------------------------------------
(* The variable registry: define_variable and get_index. *)

NaN == -1   \* a missing key value of a row (pandas fills the column with NaN)

NoName == "" \* get_index called without a name key

Row(name) == [name |-> name, timestep |-> NaN, idx |-> NaN]

SetCol(row, col, value) ==
    IF col = "timestep" THEN [row EXCEPT !.timestep = value]
    ELSE [row EXCEPT !.idx = value]

GetCol(row, col) == IF col = "timestep" THEN row.timestep ELSE row.idx

\* A key argument: the column, whether the value is a list / tuple / range /
\* index (or a single value), whether it is a tuple, and the values.
Key(col, vals) == [col |-> col, list |-> TRUE, tuple |-> FALSE, vals |-> vals]
KeyTuple(col, vals) == [col |-> col, list |-> TRUE, tuple |-> TRUE, vals |-> vals]
KeyScalar(col, value) == [col |-> col, list |-> FALSE, tuple |-> FALSE, vals |-> <<value>>]

\* itertools.product([name], *key lists): the last key set varies fastest.
RECURSIVE product(_, _)
product(row, keys) ==
    IF keys = <<>> THEN <<row>>
    ELSE Flatten([i \in 1..Len(keys[1].vals) |->
                    product(SetCol(row, keys[1].col, keys[1].vals[i]), Tail(keys))])

\* Every row stays, repeated or not (not what the code does).
keep_duplicates(rows) == rows

\* DataFrame.drop_duplicates(ignore_index=True): the first occurrence of every
\* row stays, in order; positions are renumbered.
RECURSIVE drop_duplicates_from(_, _)
drop_duplicates_from(seen, rows) ==
    IF rows = <<>> THEN seen
    ELSE IF rows[1] \in Range(seen) THEN drop_duplicates_from(seen, Tail(rows))
    ELSE drop_duplicates_from(Append(seen, rows[1]), Tail(rows))

drop_duplicates(rows) == drop_duplicates_from(<<>>, rows)

\* define_variable(name, **keys): the table after the call.
define_variable(table, name, keys) ==
    drop_duplicates(table \o product(Row(name), keys))

\* The columns of the table: name and timestep from construction, idx once a
\* declaration has used it.
HasColumn(table, col) ==
    \/ col \in {"name", "timestep"}
    \/ \E i \in 1..Len(table) : GetCol(table[i], col) # NaN

\* get_index(index_set, **levels_values): the positions (0-based) of the rows
\* that match every given key; [raised, index].  keys = [name, ks].
RowMatches(row, keys) ==
    /\ keys.name # NoName => row.name = keys.name
    /\ \A k \in 1..Len(keys.ks) :
          GetCol(row, keys.ks[k].col) \in Range(keys.ks[k].vals)

RECURSIVE flatnonzero(_, _, _)
flatnonzero(table, keys, i) ==
    IF i > Len(table) THEN <<>>
    ELSE (IF RowMatches(table[i], keys) THEN <<i - 1>> ELSE <<>>)
         \o flatnonzero(table, keys, i + 1)

\* A tuple is looked at through the first value of its column that is not
\* NaN: dropna().values[0] raises when the column has none.
TupleOnEmptyColumn(table, key) ==
    key.tuple /\ \A i \in 1..Len(table) : GetCol(table[i], key.col) = NaN

get_index(table, keys, raise_empty_index_error) ==
    IF \E k \in 1..Len(keys.ks) :
          ~HasColumn(table, keys.ks[k].col) \/ TupleOnEmptyColumn(table, keys.ks[k])
    THEN [raised |-> TRUE, index |-> <<>>]
    ELSE LET index == flatnonzero(table, keys, 1)
         IN  [raised |-> raise_empty_index_error /\ index = <<>>, index |-> index]

\* A keys dictionary: none = TRUE stands for None (no dictionary given).
Keys(name, ks) == [none |-> FALSE, name |-> name, ks |-> ks]
NoKeys == [none |-> TRUE, name |-> NoName, ks |-> <<>>]

HasKey(keys, col) == \E k \in 1..Len(keys.ks) : keys.ks[k].col = col
KeyOf(keys, col) == keys.ks[CHOOSE k \in 1..Len(keys.ks) : keys.ks[k].col = col]

-----------------------------------------------------------------------------
(* Numerical values and coefficients. *)

Scalar(n) == [dim |-> 0, m |-> <<<<n>>>>]        \* a float
Flat(row) == [dim |-> 1, m |-> <<row>>]          \* a flat array, shape (n, )
Matrix(rows) == [dim |-> 2, m |-> rows]          \* a 2-D array / sparse matrix

NRows(m) == Len(m)
NCols(m) == IF m = <<>> THEN 0 ELSE Len(m[1])

\* np.shape(value)
shape(v) ==
    IF v.dim = 0 THEN <<>>
    ELSE IF v.dim = 1 THEN <<NCols(v.m)>>
    ELSE <<NRows(v.m), NCols(v.m)>>

NoPar == ""   \* the coefficient is a literal value, not a parameter name

Lit(v) == [par |-> NoPar, v |-> v]
Par(name) == [par |-> name, v |-> Scalar(0)]

\* factor * matrix
Scale(k, m) == [i \in 1..Len(m) |-> [j \in 1..Len(m[i]) |-> k * m[i][j]]]

\* sp.eye(n)
eye(n) == [i \in 1..n |-> [j \in 1..n |-> IF i = j THEN 1 ELSE 0]]

\* np.ones(n) as one row
ones(n) == [j \in 1..n |-> 1]

\* sp.block_diag([m] * n)
block_diag(m, n) ==
    LET r == NRows(m)
        c == NCols(m)
    IN  [i \in 1..(r * n) |-> [j \in 1..(c * n) |->
            IF (i - 1) \div r = (j - 1) \div c
            THEN m[((i - 1) % r) + 1][((j - 1) % c) + 1]
            ELSE 0]]

\* np.concatenate([m] * n, axis=0) on the rows of m
RECURSIVE concatenate(_, _)
concatenate(m, n) == IF n = 0 THEN <<>> ELSE m \o concatenate(m, n - 1)

\* values.ravel(): the entries row by row
ravel(m) == Flatten(m)

\* The parameter store: a function from the defined names to their values.
NoParameters == [n \in {} |-> Scalar(0)]

\* define_parameter(name, value): the shape comparison builds a ValueError
\* and drops it; the value is stored in every case.
define_parameter(store, name, value) ==
    [n \in (DOMAIN store) \cup {name} |-> IF n = name THEN value ELSE store[n]]

-----------------------------------------------------------------------------
(* define_constraint: aggregation of the elements. *)

NoOperator == ""   \* operator = None

VarTerm(coef, keys) == [type |-> "variable", op |-> NoOperator, coef |-> coef, keys |-> keys]
ConTerm(coef, keys) == [type |-> "constant", op |-> NoOperator, coef |-> coef, keys |-> keys]
Op(op) == [type |-> "operator", op |-> op, coef |-> Lit(Scalar(0)), keys |-> NoKeys]

Term(factor, e) == [factor |-> factor, coef |-> e.coef, keys |-> e.keys]

\* The loop over the elements.  The three operator checks (first element,
\* last element, operator already defined) build a ValueError and drop it.
RECURSIVE aggregate(_, _)
aggregate(elements, acc) ==
    IF elements = <<>> \/ acc.raised THEN acc
    ELSE LET e == elements[1] IN
         aggregate(Tail(elements),
            IF e.type = "variable"
            THEN IF e.keys.none
                 THEN [acc EXCEPT !.raised = TRUE]
                 ELSE [acc EXCEPT !.variables =
                        Append(@, Term(IF acc.side = "right" THEN -1 ELSE 1, e))]
            ELSE IF e.type = "constant"
            THEN [acc EXCEPT !.constants =
                        Append(@, Term(IF acc.side = "left" THEN -1 ELSE 1, e))]
            ELSE IF e.type = "operator" /\ e.op \in {"==", "<=", ">="}
            THEN [acc EXCEPT !.operator = e.op, !.side = "right"]
            ELSE [acc EXCEPT !.raised = TRUE])

aggregate_elements(elements) ==
    aggregate(elements, [raised |-> FALSE, variables |-> <<>>, constants |-> <<>>,
                         operator |-> NoOperator, side |-> "left"])

-----------------------------------------------------------------------------
(* define_constraint_low_level. *)

NoBroadcast == <<>>   \* broadcast = None

\* The loop "for broadcast_key in broadcast" of a variable term: a key that
\* the term does not give raises, and so does len() of a single value.
RECURSIVE variable_broadcast_len(_, _)
variable_broadcast_len(broadcast, keys) ==
    IF broadcast = <<>> THEN [raised |-> FALSE, len |-> 1]
    ELSE IF ~HasKey(keys, broadcast[1]) \/ ~KeyOf(keys, broadcast[1]).list
    THEN [raised |-> TRUE, len |-> 1]
    ELSE LET rest == variable_broadcast_len(Tail(broadcast), keys)
         IN  [raised |-> rest.raised,
              len |-> Len(KeyOf(keys, broadcast[1]).vals) * rest.len]

\* The same loop of a constant term: a key that the term does not give is
\* passed over; without broadcast or without keys the length is 1.
RECURSIVE constant_broadcast_len(_, _)
constant_broadcast_len(broadcast, keys) ==
    IF broadcast = <<>> \/ keys.none THEN [raised |-> FALSE, len |-> 1]
    ELSE IF ~HasKey(keys, broadcast[1])
    THEN constant_broadcast_len(Tail(broadcast), keys)
    ELSE IF ~KeyOf(keys, broadcast[1]).list
    THEN [raised |-> TRUE, len |-> 1]
    ELSE LET rest == constant_broadcast_len(Tail(broadcast), keys)
         IN  [raised |-> rest.raised,
              len |-> Len(KeyOf(keys, broadcast[1]).vals) * rest.len]

\* The block is not tiled when broadcasting (not what the code does).
variable_value_matrix_untiled(value, variable_len, broadcast_len) ==
    IF value.dim = 0 THEN Scale(value.m[1][1], eye(variable_len))
    ELSE value.m

\* The coefficient matrix of a variable term: a flat array is one row, a
\* scalar multiplies the identity, anything else is tiled when broadcasting.
variable_value_matrix(value, variable_len, broadcast_len) ==
    IF value.dim = 0 THEN Scale(value.m[1][1], eye(variable_len))
    ELSE IF broadcast_len > 1 THEN block_diag(value.m, broadcast_len)
    ELSE value.m

\* The value of a constant term, as [dim, m]: a scalar multiplies a vector of
\* ones, anything else is repeated when broadcasting.
constant_value_vector(value, constraint_len, broadcast_len) ==
    IF value.dim = 0 THEN Flat(Scale(value.m[1][1], <<ones(constraint_len)>>)[1])
    ELSE IF broadcast_len > 1
    THEN IF value.dim = 1
         THEN Flat(Flatten(concatenate(value.m, broadcast_len)))
         ELSE Matrix(concatenate(value.m, broadcast_len))
    ELSE value

\* len(value) of a flat array or 2-D array
len(v) == IF v.dim = 1 THEN NCols(v.m) ELSE NRows(v.m)

AEntry(ci, vi, par, factor, bl, m) ==
    [ci |-> ci, vi |-> vi, par |-> par, factor |-> factor, bl |-> bl, m |-> m]
BEntry(ci, par, factor, bl, m) ==
    [ci |-> ci, par |-> par, factor |-> factor, bl |-> bl, m |-> m]

Raise(st) == [st EXCEPT !.raised = TRUE]

\* One pass of the loop "Process variables".  ctx = [table, store,
\* operator_factor, broadcast]; st = [a_dict, b_dict, constraints,
\* constraints_len, ci_set, ci, raised].
process_variable(ctx, st, t) ==
    LET variable_index == get_index(ctx.table, t.keys, TRUE)
        bl == variable_broadcast_len(ctx.broadcast, t.keys)
    IN
    IF variable_index.raised \/ bl.raised THEN Raise(st)
    ELSE IF t.coef.par # NoPar /\ t.coef.par \notin DOMAIN ctx.store THEN Raise(st)
    ELSE
    LET value == IF t.coef.par # NoPar THEN ctx.store[t.coef.par] ELSE t.coef.v
        m == variable_value_matrix(value, Len(variable_index.index), bl.len)
        ci == IF st.ci_set THEN st.ci ELSE RangeTuple(st.constraints_len, NRows(m))
    IN
    IF <<NRows(m), NCols(m)>> # <<Len(ci), Len(variable_index.index)>>
    THEN Raise(st)
    ELSE [st EXCEPT
            !.ci_set = TRUE,
            !.ci = ci,
            !.a_dict = Append(@,
                IF t.coef.par = NoPar
                THEN AEntry(ci, variable_index.index, NoPar, 1, 1,
                            Scale(ctx.operator_factor * t.factor, m))
                ELSE AEntry(ci, variable_index.index, t.coef.par,
                            ctx.operator_factor * t.factor, bl.len, <<>>))]

RECURSIVE process_variables(_, _, _)
process_variables(ctx, st, ts) ==
    IF ts = <<>> \/ st.raised THEN st
    ELSE process_variables(ctx, process_variable(ctx, st, ts[1]), Tail(ts))

\* One pass of the loop "Process constants".
process_constant(ctx, st, t) ==
    IF t.coef.par # NoPar /\ t.coef.par \notin DOMAIN ctx.store THEN Raise(st)
    ELSE
    LET value == IF t.coef.par # NoPar THEN ctx.store[t.coef.par] ELSE t.coef.v
        bl == constant_broadcast_len(ctx.broadcast, t.keys)
    IN
    IF bl.raised THEN Raise(st)
    ELSE
    LET v == constant_value_vector(value, Len(st.ci), bl.len)
        ci == IF st.ci_set THEN st.ci ELSE RangeTuple(st.constraints_len, len(v))
    IN
    IF v.dim = 2 /\ NCols(v.m) > 1 THEN Raise(st)
    ELSE IF len(v) # Len(ci) THEN Raise(st)
    ELSE [st EXCEPT
            !.ci_set = TRUE,
            !.ci = ci,
            !.b_dict = Append(@,
                IF t.coef.par = NoPar
                THEN BEntry(ci, NoPar, 1, 1, Scale(ctx.operator_factor * t.factor, v.m))
                ELSE BEntry(ci, t.coef.par, ctx.operator_factor * t.factor, bl.len, <<>>))]

RECURSIVE process_constants(_, _, _)
process_constants(ctx, st, ts) ==
    IF ts = <<>> \/ st.raised THEN st
    ELSE process_constants(ctx, process_constant(ctx, st, ts[1]), Tail(ts))

ConRow(name, constraint_type) ==
    [label |-> 0, name |-> name, timestep |-> NaN, idx |-> NaN,
     constraint_type |-> constraint_type]

\* The new registry rows are numbered from 0 on, as a fresh table is, and not
\* with the row slots (not what the code does).
append_constraints_renumbered(st, keys, constraint_type) ==
    IF keys.none
    THEN [st EXCEPT !.constraints_len = @ + Len(st.ci)]
    ELSE LET new_constraints == product(ConRow(keys.name, constraint_type), keys.ks)
         IN  IF Len(new_constraints) # Len(st.ci) THEN Raise(st)
             ELSE [st EXCEPT
                     !.constraints = @ \o [i \in 1..Len(new_constraints) |->
                          [new_constraints[i] EXCEPT !.label = i - 1]],
                     !.constraints_len = @ + Len(st.ci)]

\* "Append constraints index entries": the rows of the key product, labelled
\* with the row slots, and the new constraints_len.
append_constraints(st, keys, constraint_type) ==
    IF keys.none
    THEN [st EXCEPT !.constraints_len = @ + Len(st.ci)]
    ELSE LET new_constraints == product(ConRow(keys.name, constraint_type), keys.ks)
         IN  IF Len(new_constraints) # Len(st.ci) THEN Raise(st)
             ELSE [st EXCEPT
                     !.constraints = @ \o [i \in 1..Len(new_constraints) |->
                          [new_constraints[i] EXCEPT !.label = st.ci[i]]],
                     !.constraints_len = @ + Len(st.ci)]

\* The rows of a >= declaration are not negated (not what the code does).
define_inequality_unsigned(table, store, st, variables_, operator, constants_, keys, constraint_type, broadcast) ==
    LET ctx == [table |-> table, store |-> store, broadcast |-> broadcast,
                operator_factor |-> 1]
        st0 == [st EXCEPT !.ci_set = FALSE, !.ci = <<>>]
        st1 == process_variables(ctx, st0, variables_)
        st2 == process_constants(ctx, st1, constants_)
    IN  IF st2.raised THEN st2 ELSE append_constraints(st2, keys, constraint_type)

\* The branch "operator in ['<=', '>=']".
define_inequality(table, store, st, variables_, operator, constants_, keys, constraint_type, broadcast) ==
    LET ctx == [table |-> table, store |-> store, broadcast |-> broadcast,
                operator_factor |-> IF operator = ">=" THEN -1 ELSE 1]
        st0 == [st EXCEPT !.ci_set = FALSE, !.ci = <<>>]
        st1 == process_variables(ctx, st0, variables_)
        st2 == process_constants(ctx, st1, constants_)
    IN  IF st2.raised THEN st2 ELSE append_constraints(st2, keys, constraint_type)

\* define_constraint_low_level(variables, operator, constants, keys, broadcast)
define_constraint_low_level(table, store, st, variables_, operator, constants_, keys, broadcast) ==
    IF Len(variables_) = 0 THEN Raise(st)
    ELSE IF ~keys.none /\ keys.name = NoName THEN Raise(st)
    ELSE IF operator = "=="
    THEN LET upper == define_inequality(table, store, st, variables_, ">=",
                                        constants_, keys, "==>=", broadcast)
         IN  IF upper.raised THEN upper
             ELSE define_inequality(table, store, upper, variables_, "<=",
                                    constants_, keys, "==<=", broadcast)
    ELSE IF operator \in {"<=", ">="}
    THEN define_inequality(table, store, st, variables_, operator, constants_,
                           keys, operator, broadcast)
    ELSE st

\* Without the check "operator is None" (not what the code does).
define_constraint_unchecked(table, store, st, elements, keys, broadcast) ==
    LET agg == aggregate_elements(elements)
    IN  IF agg.raised THEN Raise(st)
        ELSE define_constraint_low_level(table, store, st, agg.variables,
                                         agg.operator, agg.constants, keys, broadcast)

\* define_constraint(*elements, keys=, broadcast=): the state after the call.
define_constraint(table, store, st, elements, keys, broadcast) ==
    LET agg == aggregate_elements(elements)
    IN  IF agg.raised THEN Raise(st)
        ELSE IF agg.operator = NoOperator THEN Raise(st)
        ELSE define_constraint_low_level(table, store, st, agg.variables,
                                         agg.operator, agg.constants, keys, broadcast)

-----------------------------------------------------------------------------
(* Compilation of the standard form: get_a_matrix and get_b_vector. *)

\* The factor of the entry is left out (not what get_a_matrix does).
a_parameter_matrix_unscaled(value, variable_len, broadcast_len, factor) ==
    IF value.dim = 0 THEN Scale(value.m[1][1], eye(variable_len))
    ELSE IF broadcast_len > 1 THEN block_diag(value.m, broadcast_len)
    ELSE value.m

\* The matrix of a parameter entry of a_dict, from the current store.
a_parameter_matrix(value, variable_len, broadcast_len, factor) ==
    Scale(factor,
          IF value.dim = 0 THEN Scale(value.m[1][1], eye(variable_len))
          ELSE IF broadcast_len > 1 THEN block_diag(value.m, broadcast_len)
          ELSE value.m)

a_entry_matrix(e, store) ==
    IF e.par = NoPar THEN e.m
    ELSE a_parameter_matrix(store[e.par], Len(e.vi), e.bl, e.factor)

\* sp.find(values): the positions of the nonzero entries
find(m) == {<<i, j>> \in (1..NRows(m)) \X (1..NCols(m)) : m[i][j] # 0}

\* np.array(constraint_index)[rows] / np.array(variable_index)[columns] raise
\* an IndexError for a position beyond the key's slots.
a_entry_raises(e, store) ==
    \E p \in find(a_entry_matrix(e, store)) : p[1] > Len(e.ci) \/ p[2] > Len(e.vi)

\* What the entry adds to cell (r, c).
RECURSIVE SumSet(_, _, _)
SumSet(m, ps, acc) ==
    IF ps = {} THEN acc
    ELSE LET p == CHOOSE q \in ps : TRUE
         IN  SumSet(m, ps \ {p}, acc + m[p[1]][p[2]])

a_entry_cell(e, store, r, c) ==
    LET m == a_entry_matrix(e, store)
    IN  SumSet(m, {p \in find(m) : e.ci[p[1]] = r /\ e.vi[p[2]] = c}, 0)

\* A cell keeps the entry written last (not what coo_matrix does).
RECURSIVE coo_cell_last(_, _, _, _)
coo_cell_last(dict, store, r, c) ==
    IF dict = <<>> THEN 0
    ELSE LET v == a_entry_cell(dict[Len(dict)], store, r, c)
         IN  IF v # 0 THEN v ELSE coo_cell_last(SubSeq(dict, 1, Len(dict) - 1), store, r, c)

\* coo_matrix(...).tocsr() adds up the entries of one cell.
RECURSIVE coo_cell(_, _, _, _)
coo_cell(dict, store, r, c) ==
    IF dict = <<>> THEN 0
    ELSE a_entry_cell(dict[1], store, r, c) + coo_cell(Tail(dict), store, r, c)

\* get_a_matrix(): [raised, m], m[r][c] for the row slots r and the variable
\* slots c (both 0-based).  np.concatenate raises on an empty list, coo_matrix
\* on a row beyond constraints_len.
get_a_matrix(dict, store, len_, table) ==
    IF \/ dict = <<>>
       \/ \E k \in 1..Len(dict) : a_entry_raises(dict[k], store)
       \/ \E k \in 1..Len(dict) :
             \E p \in find(a_entry_matrix(dict[k], store)) : dict[k].ci[p[1]] >= len_
    THEN [raised |-> TRUE, m |-> <<>>]
    ELSE [raised |-> FALSE,
          m |-> [r \in 0..(len_ - 1) |-> [c \in 0..(Len(table) - 1) |->
                    coo_cell(dict, store, r, c)]]]

\* The values of an entry of b_dict, after ravel().
b_parameter_values(value, constraint_len, broadcast_len, factor) ==
    Scale(factor,
          <<ravel(IF value.dim = 0 THEN Scale(value.m[1][1], <<ones(constraint_len)>>)
                  ELSE IF broadcast_len > 1 THEN concatenate(value.m, broadcast_len)
                  ELSE value.m)>>)[1]

b_entry_values(e, store) ==
    IF e.par = NoPar THEN ravel(e.m)
    ELSE b_parameter_values(store[e.par], Len(e.ci), e.bl, e.factor)

\* b_vector[constraint_index, 0] += values: raises for a slot beyond
\* constraints_len and for values that are neither one nor len(index) many.
b_entry_raises(e, store, len_) ==
    \/ \E i \in 1..Len(e.ci) : e.ci[i] >= len_
    \/ Len(b_entry_values(e, store)) \notin {1, Len(e.ci)}

b_entry_cell(e, store, r) ==
    LET values == b_entry_values(e, store)
    IN  SumSeq([i \in 1..Len(e.ci) |->
                  IF e.ci[i] = r
                  THEN (IF Len(values) = 1 THEN values[1] ELSE values[i])
                  ELSE 0])

RECURSIVE b_cell(_, _, _)
b_cell(dict, store, r) ==
    IF dict = <<>> THEN 0
    ELSE b_entry_cell(dict[1], store, r) + b_cell(Tail(dict), store, r)

\* get_b_vector(): [raised, m], m[r] for the row slots r.
get_b_vector(dict, store, len_) ==
    IF \E k \in 1..Len(dict) : b_entry_raises(dict[k], store, len_)
    THEN [raised |-> TRUE, m |-> <<>>]
    ELSE [raised |-> FALSE, m |-> [r \in 0..(len_ - 1) |-> b_cell(dict, store, r)]]

-----------------------------------------------------------------------------
(* define_objective and define_objective_low_level. *)

ObjVar(coef, keys) ==
    [type |-> "variable", coef |-> coef, keys |-> keys, keys2 |-> NoKeys]
ObjQuad(coef, keys, keys2) ==
    [type |-> "variable", coef |-> coef, keys |-> keys, keys2 |-> keys2]
ObjCon(coef, keys) ==
    [type |-> "constant", coef |-> coef, keys |-> keys, keys2 |-> NoKeys]

CEntry(vi, par, bl, m) == [vi |-> vi, par |-> par, bl |-> bl, m |-> m]
QEntry(vi1, vi2, par, bl, m) == [vi1 |-> vi1, vi2 |-> vi2, par |-> par, bl |-> bl, m |-> m]
DEntry(par, bl, m) == [par |-> par, bl |-> bl, m |-> m]

\* np.concatenate([m] * n, axis=1): the rows of m, each repeated n times over
RECURSIVE repeat(_, _)
repeat(row, n) == IF n = 0 THEN <<>> ELSE row \o repeat(row, n - 1)
concatenate_columns(m, n) == [i \in 1..Len(m) |-> repeat(m[i], n)]

\* sp.diags(values)
diags(row) == [i \in 1..Len(row) |-> [j \in 1..Len(row) |-> IF i = j THEN row[i] ELSE 0]]

\* The factor of a linear objective term, as [dim, m]: a scalar multiplies a
\* row of ones, anything else is repeated over the columns when broadcasting.
objective_value_vector(value, variable_len, broadcast_len) ==
    IF value.dim = 0 THEN Matrix(Scale(value.m[1][1], <<ones(variable_len)>>))
    ELSE IF broadcast_len > 1 THEN Matrix(concatenate_columns(value.m, broadcast_len))
    ELSE value

\* The factor of a quadratic objective term: a flat array is a diagonal, a
\* scalar multiplies the identity, anything else is tiled block-diagonally.
quadratic_value_matrix(value, variable_len, broadcast_len) ==
    IF value.dim = 0 THEN Scale(value.m[1][1], eye(variable_len))
    ELSE IF value.dim = 1 THEN block_diag(diags(value.m[1]), broadcast_len)
    ELSE block_diag(value.m, broadcast_len)

\* ost = [c_dict, q_dict, d_dict, raised]; octx = [table, store, broadcast].
objective_variable(octx, ost, t) ==
    IF t.keys.none THEN Raise(ost)
    ELSE
    LET variable_index == get_index(octx.table, t.keys, TRUE)
        bl == variable_broadcast_len(octx.broadcast, t.keys)
    IN
    IF variable_index.raised \/ bl.raised THEN Raise(ost)
    ELSE IF t.coef.par # NoPar /\ t.coef.par \notin DOMAIN octx.store THEN Raise(ost)
    ELSE
    LET value == IF t.coef.par # NoPar THEN octx.store[t.coef.par] ELSE t.coef.v
        v == objective_value_vector(value, Len(variable_index.index), bl.len)
    IN
    IF v.dim = 2 /\ NRows(v.m) > 1 THEN Raise(ost)
    ELSE IF NCols(v.m) # Len(variable_index.index) THEN Raise(ost)
    ELSE [ost EXCEPT !.c_dict = Append(@,
            IF t.coef.par = NoPar
            THEN CEntry(variable_index.index, NoPar, 1, v.m)
            ELSE CEntry(variable_index.index, t.coef.par, bl.len, <<>>))]

objective_quadratic(octx, ost, t) ==
    IF t.keys.none THEN Raise(ost)
    ELSE
    LET variable_1_index == get_index(octx.table, t.keys, TRUE)
        variable_2_index == get_index(octx.table, t.keys2, TRUE)
        bl == variable_broadcast_len(octx.broadcast, t.keys)
    IN
    IF variable_1_index.raised \/ variable_2_index.raised \/ bl.raised THEN Raise(ost)
    ELSE IF t.coef.par # NoPar /\ t.coef.par \notin DOMAIN octx.store THEN Raise(ost)
    ELSE
    LET value == IF t.coef.par # NoPar THEN octx.store[t.coef.par] ELSE t.coef.v
        m == quadratic_value_matrix(value, Len(variable_1_index.index), bl.len)
    IN
    IF NRows(m) # Len(variable_1_index.index) THEN Raise(ost)
    ELSE IF NCols(m) # Len(variable_2_index.index) THEN Raise(ost)
    ELSE [ost EXCEPT !.q_dict = Append(@,
            IF t.coef.par = NoPar
            THEN QEntry(variable_1_index.index, variable_2_index.index, NoPar, 1, m)
            ELSE QEntry(variable_1_index.index, variable_2_index.index,
                        t.coef.par, bl.len, <<>>))]

objective_constant(octx, ost, t) ==
    IF t.coef.par # NoPar /\ t.coef.par \notin DOMAIN octx.store THEN Raise(ost)
    ELSE
    LET value == IF t.coef.par # NoPar THEN octx.store[t.coef.par] ELSE t.coef.v
        bl == constant_broadcast_len(octx.broadcast, t.keys)
    IN
    IF bl.raised THEN Raise(ost)
    ELSE IF value.dim # 0 /\ shape(value) \notin {<<1>>, <<1, 1>>} THEN Raise(ost)
    ELSE [ost EXCEPT !.d_dict = Append(@,
            IF t.coef.par = NoPar
            THEN DEntry(NoPar, 1, IF bl.len > 1 THEN Scale(bl.len, value.m) ELSE value.m)
            ELSE DEntry(t.coef.par, bl.len, <<>>))]

RECURSIVE objective_terms(_, _, _, _)
objective_terms(octx, ost, ts, kind) ==
    IF ts = <<>> \/ ost.raised THEN ost
    ELSE objective_terms(octx,
            IF kind = "variable" THEN objective_variable(octx, ost, ts[1])
            ELSE IF kind = "quadratic" THEN objective_quadratic(octx, ost, ts[1])
            ELSE objective_constant(octx, ost, ts[1]),
            Tail(ts), kind)

\* define_objective_low_level: the linear terms, then the quadratic terms,
\* then the constants.
define_objective_low_level(table, store, ost, variables_, variables_quadratic, constants_, broadcast) ==
    LET octx == [table |-> table, store |-> store, broadcast |-> broadcast]
        st1 == objective_terms(octx, ost, variables_, "variable")
        st2 == objective_terms(octx, st1, variables_quadratic, "quadratic")
    IN  objective_terms(octx, st2, constants_, "constant")

\* define_objective(*elements, broadcast=)
define_objective(table, store, ost, elements, broadcast) ==
    IF \E i \in 1..Len(elements) : elements[i].type \notin {"variable", "constant"}
    THEN Raise(ost)
    ELSE LET IsLinear(e) == e.type = "variable" /\ e.keys2.none
             IsQuadratic(e) == e.type = "variable" /\ ~e.keys2.none
             IsConstant(e) == e.type = "constant"
         IN  define_objective_low_level(table, store, ost,
                 SelectSeq(elements, IsLinear), SelectSeq(elements, IsQuadratic),
                 SelectSeq(elements, IsConstant), broadcast)

-----------------------------------------------------------------------------
(* Compilation of the objective: get_c_vector, get_q_matrix, get_d_constant. *)

c_parameter_values(value, variable_len, broadcast_len) ==
    ravel(IF value.dim = 0 THEN Scale(value.m[1][1], <<ones(variable_len)>>)
          ELSE IF broadcast_len > 1 THEN concatenate_columns(value.m, broadcast_len)
          ELSE value.m)

c_entry_values(e, store) ==
    IF e.par = NoPar THEN ravel(e.m) ELSE c_parameter_values(store[e.par], Len(e.vi), e.bl)

\* c_vector[0, variable_index] += values
c_entry_raises(e, store) == Len(c_entry_values(e, store)) \notin {1, Len(e.vi)}

c_entry_cell(e, store, c) ==
    LET values == c_entry_values(e, store)
    IN  SumSeq([j \in 1..Len(e.vi) |->
                  IF e.vi[j] = c
                  THEN (IF Len(values) = 1 THEN values[1] ELSE values[j])
                  ELSE 0])

RECURSIVE c_cell(_, _, _)
c_cell(dict, store, c) ==
    IF dict = <<>> THEN 0
    ELSE c_entry_cell(dict[1], store, c) + c_cell(Tail(dict), store, c)

\* get_c_vector(): [raised, m], m[c] for the variable slots c.
get_c_vector(dict, store, table) ==
    IF \E k \in 1..Len(dict) : c_entry_raises(dict[k], store)
    THEN [raised |-> TRUE, m |-> <<>>]
    ELSE [raised |-> FALSE, m |-> [c \in 0..(Len(table) - 1) |-> c_cell(dict, store, c)]]

q_parameter_matrix(value, variable_len, broadcast_len) ==
    IF value.dim = 0 THEN Scale(value.m[1][1], eye(variable_len))
    ELSE IF value.dim = 1
    THEN (IF broadcast_len > 1 THEN block_diag(diags(value.m[1]), broadcast_len)
          ELSE diags(value.m[1]))
    ELSE IF broadcast_len > 1 THEN block_diag(value.m, broadcast_len)
    ELSE value.m

q_entry_matrix(e, store) ==
    IF e.par = NoPar THEN e.m ELSE q_parameter_matrix(store[e.par], Len(e.vi1), e.bl)

q_entry_raises(e, store) ==
    \E p \in find(q_entry_matrix(e, store)) : p[1] > Len(e.vi1) \/ p[2] > Len(e.vi2)

q_entry_cell(e, store, r, c) ==
    LET m == q_entry_matrix(e, store)
    IN  SumSet(m, {p \in find(m) : e.vi1[p[1]] = r /\ e.vi2[p[2]] = c}, 0)

RECURSIVE q_cell(_, _, _, _)
q_cell(dict, store, r, c) ==
    IF dict = <<>> THEN 0
    ELSE q_entry_cell(dict[1], store, r, c) + q_cell(Tail(dict), store, r, c)

\* get_q_matrix(): [raised, m]; without entries the zero matrix.
get_q_matrix(dict, store, table) ==
    IF \E k \in 1..Len(dict) : q_entry_raises(dict[k], store)
    THEN [raised |-> TRUE, m |-> <<>>]
    ELSE [raised |-> FALSE,
          m |-> [r \in 0..(Len(table) - 1) |-> [c \in 0..(Len(table) - 1) |->
                    q_cell(dict, store, r, c)]]]

d_entry_value(e, store) ==
    IF e.par = NoPar THEN e.m[1][1]
    ELSE IF e.bl > 1 THEN e.bl * store[e.par].m[1][1] ELSE store[e.par].m[1][1]

\* float(values) raises for an array of more than one entry
d_entry_raises(e, store) ==
    e.par # NoPar /\ (NRows(store[e.par].m) # 1 \/ NCols(store[e.par].m) # 1)

RECURSIVE d_sum(_, _)
d_sum(dict, store) ==
    IF dict = <<>> THEN 0 ELSE d_entry_value(dict[1], store) + d_sum(Tail(dict), store)

\* get_d_constant(): [raised, d]
get_d_constant(dict, store) ==
    IF \E k \in 1..Len(dict) : d_entry_raises(dict[k], store)
    THEN [raised |-> TRUE, d |-> 0]
    ELSE [raised |-> FALSE, d |-> d_sum(dict, store)]

-----------------------------------------------------------------------------
(* The state machine. *)

\* OptimizationProblem.__init__
Init ==
    /\ variables = <<>>
    /\ constraints = <<>>
    /\ constraints_len = 0
    /\ parameters = NoParameters
    /\ a_dict = <<>>
    /\ b_dict = <<>>
    /\ c_dict = <<>>
    /\ q_dict = <<>>
    /\ d_dict = <<>>
    /\ d_dict_keys = {}
    /\ x_vector = Unset
    /\ mu_vector = Unset
    /\ objective = Unset
    /\ results = Unset
    /\ duals = Unset
    /\ calls = 0
    /\ last = [op |-> "init", raised |-> FALSE]

DefineVariable(name, keys) ==
    /\ Len(define_variable(variables, name, keys)) <= MaxVariables
    /\ variables' = define_variable(variables, name, keys)
    /\ last' = [op |-> "define_variable", raised |-> FALSE, name |-> name, keys |-> keys,
                before |-> Len(variables)]
    /\ UNCHANGED <<constraints, constraints_len, parameters,
                   a_dict, b_dict, c_dict, q_dict, d_dict, d_dict_keys, solution, calls>>

DefineParameter(name, value) ==
    /\ parameters' = define_parameter(parameters, name, value)
    /\ last' = [op |-> "define_parameter", raised |-> FALSE, name |-> name,
                value |-> value, redefined |-> name \in DOMAIN parameters,
                old |-> IF name \in DOMAIN parameters THEN parameters[name] ELSE value]
    /\ UNCHANGED <<variables, constraints, constraints_len,
                   a_dict, b_dict, c_dict, q_dict, d_dict, d_dict_keys, solution, calls>>

ConstraintState ==
    [a_dict |-> a_dict, b_dict |-> b_dict, constraints |-> constraints,
     constraints_len |-> constraints_len, ci_set |-> FALSE, ci |-> <<>>,
     raised |-> FALSE]

\* define_constraint(*elements, keys=, broadcast=): the call itself.
DefineConstraintCall(elements, keys, broadcast) ==
    /\ LET st == define_constraint(variables, parameters, ConstraintState,
                                   elements, keys, broadcast)
       IN  /\ a_dict' = st.a_dict
           /\ b_dict' = st.b_dict
           /\ constraints' = st.constraints
           /\ constraints_len' = st.constraints_len
           /\ last' = [op |-> "define_constraint", raised |-> st.raised,
                       elements |-> elements, keys |-> keys, broadcast |-> broadcast,
                       before |-> constraints_len]
    /\ calls' = calls + 1
    /\ UNCHANGED <<variables, parameters, c_dict, q_dict, d_dict, d_dict_keys, solution>>

\* A define_constraint call of a run of at most MaxCalls declarations.
DefineConstraint(elements, keys, broadcast) ==
    /\ calls < MaxCalls
    /\ DefineConstraintCall(elements, keys, broadcast)

\* get_index(self.variables, **keys, raise_empty_index_error=...): a read.
GetIndex(keys, raise_empty_index_error) ==
    /\ LET result == get_index(variables, keys, raise_empty_index_error)
       IN  last' = [op |-> "get_index", raised |-> result.raised, index |-> result.index,
                    keys |-> keys, raise_empty_index_error |-> raise_empty_index_error]
    /\ UNCHANGED <<variables, constraints, constraints_len, parameters,
                   a_dict, b_dict, c_dict, q_dict, d_dict, d_dict_keys, solution, calls>>

ObjectiveState ==
    [c_dict |-> c_dict, q_dict |-> q_dict, d_dict |-> d_dict, raised |-> FALSE]

\* define_objective(*elements, broadcast=): the call itself.
DefineObjectiveCall(elements, broadcast) ==
    /\ LET ost == define_objective(variables, parameters, ObjectiveState,
                                   elements, broadcast)
       IN  /\ c_dict' = ost.c_dict
           /\ q_dict' = ost.q_dict
           /\ d_dict' = ost.d_dict
           /\ d_dict_keys' = IF ost.d_dict # d_dict THEN {0} ELSE d_dict_keys
           /\ last' = [op |-> "define_objective", raised |-> ost.raised,
                       elements |-> elements, broadcast |-> broadcast]
    /\ calls' = calls + 1
    /\ UNCHANGED <<variables, parameters, constraints, constraints_len, a_dict, b_dict,
                   solution>>

\* A define_objective call of a run of at most MaxCalls declarations.
DefineObjective(elements, broadcast) ==
    /\ calls < MaxCalls
    /\ DefineObjectiveCall(elements, broadcast)

-----------------------------------------------------------------------------
(* Inputs of the specification Spec: two variables, a[0], a[1] and the      *)
(* scalar b, and define_constraint calls with and without flaws.            *)

IdxValues == <<0, 1>>
TimestepValues == <<1, 2>>

Va == VarTerm(Lit(Scalar(1)), Keys("a", <<>>))
Vb == VarTerm(Lit(Scalar(2)), Keys("b", <<>>))
C3 == ConTerm(Lit(Scalar(3)), NoKeys)

Operators == {"<=", ">=", "=="}

Call(elements, keys, broadcast) ==
    [elements |-> elements, keys |-> keys, broadcast |-> broadcast]

\* left OP right, without keys
PlainCalls ==
    {Call(<<x, Op(o), y>>, NoKeys, NoBroadcast) : x, y \in {Va, Vb, C3}, o \in Operators}

\* with keys: one key combination for the one row of b, and for the two rows of a
KeyedCalls ==
    {Call(<<x, Op(o), C3>>, Keys("c", <<>>), NoBroadcast) : x \in {Va, Vb}, o \in Operators}

\* no operator, operator first, operator last, two operators
FlawedCalls ==
    {Call(<<Va, C3>>, NoKeys, NoBroadcast),
     Call(<<Op("<="), Vb, C3>>, NoKeys, NoBroadcast),
     Call(<<Vb, C3, Op("<=")>>, NoKeys, NoBroadcast),
     Call(<<Vb, Op("<="), C3, Op(">=")>>, NoKeys, NoBroadcast),
     Call(<<Vb, Op("<="), Op(">="), C3>>, Keys("c", <<>>), NoBroadcast)}

ConstraintCalls == PlainCalls \cup KeyedCalls \cup FlawedCalls

Next ==
    \/ DefineVariable("a", <<Key("idx", IdxValues)>>)
    \/ DefineVariable("b", <<>>)
    \/ \E c \in ConstraintCalls : DefineConstraint(c.elements, c.keys, c.broadcast)

Spec == Init /\ [][Next]_vars

-----------------------------------------------------------------------------
(* Inputs of the specification SpecCompile: the parameter p, constraint and *)
(* objective declarations with literal factors and with p as factor.        *)

Vp == VarTerm(Par("p"), Keys("a", <<>>))
Cp == ConTerm(Par("p"), NoKeys)

ParameterValues == {Scalar(2), Scalar(5), Flat(<<1, 2>>)}

CompileConstraintCalls ==
    {Call(<<Va, Op("<="), Vp>>, NoKeys, NoBroadcast),
     Call(<<Vp, Op(">="), Cp>>, NoKeys, NoBroadcast),
     Call(<<Va, Op("<="), Va, C3, C3>>, NoKeys, NoBroadcast),
     Call(<<Vb, Op("=="), Cp>>, NoKeys, NoBroadcast)}

ObjectiveCalls ==
    {<<ObjVar(Lit(Scalar(1)), Keys("a", <<>>))>>,
     <<ObjVar(Lit(Flat(<<1, 2>>)), Keys("a", <<>>)), ObjCon(Lit(Scalar(3)), NoKeys),
       ObjVar(Lit(Scalar(1)), Keys("a", <<>>)), ObjCon(Lit(Scalar(3)), NoKeys)>>,
     <<ObjVar(Par("p"), Keys("a", <<>>)), ObjCon(Par("p"), NoKeys)>>,
     <<ObjQuad(Lit(Scalar(1)), Keys("a", <<>>), Keys("a", <<>>))>>,
     <<ObjQuad(Par("p"), Keys("a", <<>>), Keys("a", <<>>)),
       ObjQuad(Lit(Matrix(<<<<1, 2>>, <<0, 1>>>>)), Keys("a", <<>>), Keys("a", <<>>))>>}

NextCompile ==
    \/ DefineVariable("a", <<Key("idx", IdxValues)>>)
    \/ DefineVariable("b", <<>>)
    \/ \E value \in ParameterValues : DefineParameter("p", value)
    \/ \E c \in CompileConstraintCalls : DefineConstraint(c.elements, c.keys, c.broadcast)
    \/ \E elements \in ObjectiveCalls : DefineObjective(elements, NoBroadcast)

SpecCompile == Init /\ [][NextCompile]_vars

-----------------------------------------------------------------------------
(* What a declaration says, read off its elements: the two sides of the     *)
(* operator as functions of a variable vector x (x[c] for the slot c).      *)

XMax == 1   \* the entries of the vectors x tried are -XMax .. XMax

XVectors == [0..(Len(variables) - 1) -> (-XMax)..XMax]

IsOp(e) == e.type = "operator"
OperatorPositions(elements) == {i \in 1..Len(elements) : IsOp(elements[i])}
HasVariableTerm(elements) == \E i \in 1..Len(elements) : elements[i].type = "variable"

\* exactly one operator, with elements on both of its sides
WellFormed(elements) ==
    /\ Cardinality(OperatorPositions(elements)) = 1
    /\ ~IsOp(elements[1])
    /\ ~IsOp(elements[Len(elements)])
    /\ HasVariableTerm(elements)

OperatorOf(elements) == elements[CHOOSE i \in OperatorPositions(elements) : TRUE].op
LeftOf(elements) ==
    SubSeq(elements, 1, (CHOOSE i \in OperatorPositions(elements) : TRUE) - 1)
RightOf(elements) ==
    SubSeq(elements, (CHOOSE i \in OperatorPositions(elements) : TRUE) + 1, Len(elements))

ValueOf(coef) == IF coef.par = NoPar THEN coef.v ELSE parameters[coef.par]

SlotsOf(keys) == get_index(variables, keys, FALSE).index

\* Row k of the term e at x: factor * x for a scalar factor, the k-th row of
\* the matrix times the variable slice otherwise; a constant's k-th entry.
TermRow(e, k, x) ==
    LET v == ValueOf(e.coef) IN
    IF e.type = "variable"
    THEN IF v.dim = 0 THEN v.m[1][1] * x[SlotsOf(e.keys)[k]]
         ELSE SumSeq([j \in 1..NCols(v.m) |-> v.m[k][j] * x[SlotsOf(e.keys)[j]]])
    ELSE IF v.dim = 0 THEN v.m[1][1]
    ELSE ravel(v.m)[k]

SideRow(side, k, x) == SumSeq([i \in 1..Len(side) |-> TermRow(side[i], k, x)])

\* The rows the declaration states: those of its first variable term.
DeclaredRows(elements) ==
    LET e == elements[CHOOSE i \in 1..Len(elements) :
                 /\ elements[i].type = "variable"
                 /\ \A j \in 1..(i - 1) : elements[j].type # "variable"]
        v == ValueOf(e.coef)
    IN  IF v.dim = 0 THEN Len(SlotsOf(e.keys)) ELSE NRows(v.m)

DeclaredHolds(elements, x) ==
    \A k \in 1..DeclaredRows(elements) :
        LET l == SideRow(LeftOf(elements), k, x)
            r == SideRow(RightOf(elements), k, x)
        IN  CASE OperatorOf(elements) = "<=" -> l <= r
              [] OperatorOf(elements) = ">=" -> l >= r
              [] OTHER -> l = r

\* The compiled standard form of the current state.
AMatrix == get_a_matrix(a_dict, parameters, constraints_len, variables)
BVector == get_b_vector(b_dict, parameters, constraints_len)

\* The row slots the last define_constraint call consumed.
LastRows == last.before..(constraints_len - 1)

\* Row r of A x <= b
RowHolds(A, B, r, x) ==
    SumSeq([c \in 1..Len(variables) |-> A[r][c - 1] * x[c - 1]]) <= B[r]

\* The rows of A x <= b that the last define_constraint call consumed hold at
\* x exactly when the declaration of the call holds at x.
LastRowsStateDeclaration ==
    LET A == AMatrix.m
        B == BVector.m
    IN  \A x \in XVectors :
           (\A r \in LastRows : RowHolds(A, B, r, x)) <=> DeclaredHolds(last.elements, x)

Declared == last.op = "define_constraint" /\ ~last.raised /\ WellFormed(last.elements)

Slots(dict, from) == UNION {Range(dict[k].ci) : k \in from..Len(dict)}

-----------------------------------------------------------------------------
(* C2: a define_constraint call writes only row slots that no earlier call  *)
(* has written, and they start at the constraint count: the slots of the    *)
(* entries it appends to a_dict and b_dict are none of the slots of the     *)
(* entries that were there before.                                          *)
C2_SlotsNeverReused ==
    [][last'.op = "define_constraint" =>
          LET new == Slots(a_dict', Len(a_dict) + 1) \cup Slots(b_dict', Len(b_dict) + 1)
              old == Slots(a_dict, 1) \cup Slots(b_dict, 1)
          IN  /\ new \cap old = {}
              /\ \A r \in new : r >= constraints_len]_vars

(* C3: after a declaration left OP right with OP <= or >=, the compiled     *)
(* rows of the declaration hold at x exactly when the declared inequality   *)
(* holds at x.                                                              *)
C3_RowsStateDeclaration ==
    (Declared /\ OperatorOf(last.elements) \in {"<=", ">="}) =>
        /\ ~AMatrix.raised /\ ~BVector.raised
        /\ LastRowsStateDeclaration

(* C4: an equality declaration of n rows consumes 2n row slots, and its     *)
(* compiled rows hold at x exactly when M x = v.                            *)
C4_EqualityTwoBlocks ==
    (Declared /\ OperatorOf(last.elements) = "==") =>
        /\ constraints_len = last.before + 2 * DeclaredRows(last.elements)
        /\ ~AMatrix.raised /\ ~BVector.raised
        /\ LastRowsStateDeclaration

-----------------------------------------------------------------------------
(* The compiled objective of the current state. *)

CVector == get_c_vector(c_dict, parameters, variables)
QMatrix == get_q_matrix(q_dict, parameters, variables)
DConstant == get_d_constant(d_dict, parameters)

CompileOk ==
    ~AMatrix.raised /\ ~BVector.raised /\ ~CVector.raised /\ ~QMatrix.raised
    /\ ~DConstant.raised

RowSlots == 0..(constraints_len - 1)
VariableSlots == 0..(Len(variables) - 1)

\* The sum of the values of the function f (of finite domain).
RECURSIVE SumOver(_)
SumOver(f) ==
    IF DOMAIN f = {} THEN 0
    ELSE LET s == CHOOSE t \in DOMAIN f : TRUE
         IN  f[s] + SumOver([t \in (DOMAIN f) \ {s} |-> f[t]])

\* What the k-th item of an accumulator contributes to a cell: the entry of
\* its block that lies on the cell.
AContribution(k, r, c) ==
    LET e == a_dict[k]
        m == a_entry_matrix(e, parameters)
    IN  SumOver([p \in {q \in (1..NRows(m)) \X (1..NCols(m)) :
                            /\ q[1] <= Len(e.ci) /\ q[2] <= Len(e.vi)
                            /\ e.ci[q[1]] = r /\ e.vi[q[2]] = c} |-> m[p[1]][p[2]]])

BContribution(k, r) ==
    LET e == b_dict[k]
        values == b_entry_values(e, parameters)
    IN  SumOver([i \in {j \in 1..Len(e.ci) : e.ci[j] = r} |->
                    values[IF Len(values) = 1 THEN 1 ELSE i]])

CContribution(k, c) ==
    LET e == c_dict[k]
        values == c_entry_values(e, parameters)
    IN  SumOver([j \in {i \in 1..Len(e.vi) : e.vi[i] = c} |->
                    values[IF Len(values) = 1 THEN 1 ELSE j]])

QContribution(k, r, c) ==
    LET e == q_dict[k]
        m == q_entry_matrix(e, parameters)
    IN  SumOver([p \in {q \in (1..NRows(m)) \X (1..NCols(m)) :
                            /\ q[1] <= Len(e.vi1) /\ q[2] <= Len(e.vi2)
                            /\ e.vi1[q[1]] = r /\ e.vi2[q[2]] = c} |-> m[p[1]][p[2]]])

(* C5: every cell of A, b, c and Q is the sum of what the items of the      *)
(* accumulator contribute to it, and d is the sum of the items of d_dict.   *)
C5_CompileSums ==
    CompileOk =>
        LET A == AMatrix.m
            B == BVector.m
            C == CVector.m
            Q == QMatrix.m
        IN
        /\ \A r \in RowSlots, c \in VariableSlots :
              A[r][c] = SumOver([k \in 1..Len(a_dict) |-> AContribution(k, r, c)])
        /\ \A r \in RowSlots :
              B[r] = SumOver([k \in 1..Len(b_dict) |-> BContribution(k, r)])
        /\ \A c \in VariableSlots :
              C[c] = SumOver([k \in 1..Len(c_dict) |-> CContribution(k, c)])
        /\ \A r \in VariableSlots, c \in VariableSlots :
              Q[r][c] = SumOver([k \in 1..Len(q_dict) |-> QContribution(k, r, c)])
        /\ DConstant.d =
              SumOver([k \in 1..Len(d_dict) |-> d_entry_value(d_dict[k], parameters)])

\* a cell of A and a cell of c each with two contributions that are not zero,
\* and two constants of the objective
C5_Witness ==
    /\ CompileOk
    /\ \E r \in RowSlots, c \in VariableSlots :
          Cardinality({k \in 1..Len(a_dict) : AContribution(k, r, c) # 0}) >= 2
    /\ \E c \in VariableSlots :
          Cardinality({k \in 1..Len(c_dict) : CContribution(k, c) # 0}) >= 2
    /\ Len(d_dict) >= 2

-----------------------------------------------------------------------------
(* The accumulators with every parameter item replaced by the item that a   *)
(* declaration with the parameter's current value as literal factor stores. *)

LiteralA(e) ==
    IF e.par = NoPar THEN e
    ELSE AEntry(e.ci, e.vi, NoPar, 1, 1,
                Scale(e.factor, variable_value_matrix(parameters[e.par], Len(e.vi), e.bl)))
LiteralB(e) ==
    IF e.par = NoPar THEN e
    ELSE BEntry(e.ci, NoPar, 1, 1,
                Scale(e.factor, constant_value_vector(parameters[e.par], Len(e.ci), e.bl).m))
LiteralC(e) ==
    IF e.par = NoPar THEN e
    ELSE CEntry(e.vi, NoPar, 1, objective_value_vector(parameters[e.par], Len(e.vi), e.bl).m)
LiteralQ(e) ==
    IF e.par = NoPar THEN e
    ELSE QEntry(e.vi1, e.vi2, NoPar, 1,
                quadratic_value_matrix(parameters[e.par], Len(e.vi1), e.bl))
LiteralD(e) ==
    IF e.par = NoPar THEN e
    ELSE DEntry(NoPar, 1, IF e.bl > 1 THEN Scale(e.bl, parameters[e.par].m)
                          ELSE parameters[e.par].m)

FromCurrentValues ==
    /\ AMatrix = get_a_matrix([k \in 1..Len(a_dict) |-> LiteralA(a_dict[k])],
                              NoParameters, constraints_len, variables)
    /\ BVector = get_b_vector([k \in 1..Len(b_dict) |-> LiteralB(b_dict[k])],
                              NoParameters, constraints_len)
    /\ CVector = get_c_vector([k \in 1..Len(c_dict) |-> LiteralC(c_dict[k])],
                              NoParameters, variables)
    /\ QMatrix = get_q_matrix([k \in 1..Len(q_dict) |-> LiteralQ(q_dict[k])],
                              NoParameters, variables)
    /\ DConstant = get_d_constant([k \in 1..Len(d_dict) |-> LiteralD(d_dict[k])],
                                  NoParameters)

\* The parameter store before the last define_parameter call: the call
\* changed the value of last.name from last.old and nothing else.
OldParameters == define_parameter(parameters, last.name, last.old)

\* The compilation succeeded before the call.
OldCompileOk ==
    /\ ~get_a_matrix(a_dict, OldParameters, constraints_len, variables).raised
    /\ ~get_b_vector(b_dict, OldParameters, constraints_len).raised
    /\ ~get_c_vector(c_dict, OldParameters, variables).raised
    /\ ~get_q_matrix(q_dict, OldParameters, variables).raised
    /\ ~get_d_constant(d_dict, OldParameters).raised

\* The cells that no item with the parameter name lies on are the same in the
\* compiled forms before and after the call.
OthersUnchanged(name) ==
    LET A0 == get_a_matrix(a_dict, OldParameters, constraints_len, variables).m
        B0 == get_b_vector(b_dict, OldParameters, constraints_len).m
        C0 == get_c_vector(c_dict, OldParameters, variables).m
        Q0 == get_q_matrix(q_dict, OldParameters, variables).m
        A1 == AMatrix.m
        B1 == BVector.m
        C1 == CVector.m
        Q1 == QMatrix.m
    IN
    /\ \A r \in RowSlots, c \in VariableSlots :
          (~\E k \in 1..Len(a_dict) : /\ a_dict[k].par = name
                                      /\ r \in Range(a_dict[k].ci)
                                      /\ c \in Range(a_dict[k].vi))
          => A1[r][c] = A0[r][c]
    /\ \A r \in RowSlots :
          (~\E k \in 1..Len(b_dict) : b_dict[k].par = name /\ r \in Range(b_dict[k].ci))
          => B1[r] = B0[r]
    /\ \A c \in VariableSlots :
          (~\E k \in 1..Len(c_dict) : c_dict[k].par = name /\ c \in Range(c_dict[k].vi))
          => C1[c] = C0[c]
    /\ \A r \in VariableSlots, c \in VariableSlots :
          (~\E k \in 1..Len(q_dict) : /\ q_dict[k].par = name
                                      /\ r \in Range(q_dict[k].vi1)
                                      /\ c \in Range(q_dict[k].vi2))
          => Q1[r][c] = Q0[r][c]
    /\ (~\E k \in 1..Len(d_dict) : d_dict[k].par = name)
          => DConstant.d = get_d_constant(d_dict, OldParameters).d

SameShapeRedefinition(l) ==
    l.op = "define_parameter" /\ l.redefined /\ shape(l.value) = shape(l.old)

(* C6: when a problem that compiles has a parameter redefined with a value  *)
(* of the same shape, the next compilation succeeds, every item that names  *)
(* a parameter enters with the parameter's current value, and the cells     *)
(* that no item naming the redefined parameter lies on keep their values.   *)
C6_RecompileAfterRedefinition ==
    (SameShapeRedefinition(last) /\ OldCompileOk) =>
        (CompileOk /\ FromCurrentValues /\ OthersUnchanged(last.name))

\* a parameter that items of a_dict and b_dict name has a new value, beside
\* literal items
C6_Witness ==
    /\ SameShapeRedefinition(last) /\ last.value # last.old
    /\ CompileOk
    /\ \E k \in 1..Len(a_dict) : a_dict[k].par = last.name
    /\ \E k \in 1..Len(a_dict) : a_dict[k].par = NoPar
    /\ \E k \in 1..Len(b_dict) : b_dict[k].par = last.name

(* C7: define_parameter on a defined name raises when the shape of the new  *)
(* value differs from the stored one, and then leaves the store unchanged;  *)
(* with an equal shape the new value is stored.                             *)
C7_ShapeMismatchRaises ==
    [][(last'.op = "define_parameter" /\ last'.redefined) =>
          IF shape(last'.value) # shape(last'.old)
          THEN last'.raised /\ parameters' = parameters
          ELSE parameters'[last'.name] = last'.value]_vars

-----------------------------------------------------------------------------
(* Inputs of the specification SpecVar: declarations of the names a and b   *)
(* with no keys, one key column or two, with single values, with a value    *)
(* list in two orders and with a value list that repeats a value.           *)

VariableNames == {"a", "b"}

VariableKeys ==
    {<<>>,
     <<Key("idx", IdxValues)>>,
     <<Key("idx", <<1, 0>>)>>,
     <<Key("idx", <<0, 0>>)>>,
     <<KeyScalar("idx", 0)>>,
     <<Key("timestep", TimestepValues)>>,
     <<Key("timestep", TimestepValues), Key("idx", IdxValues)>>,
     <<Key("idx", IdxValues), KeyScalar("timestep", 1)>>}

NextVar == \E name \in VariableNames, keys \in VariableKeys : DefineVariable(name, keys)

SpecVar == Init /\ [][NextVar]_vars

\* The rows a declaration names.
DeclaredVariableRows(l) == Range(product(Row(l.name), l.keys))

\* The declaration named only rows that the table held already.
Repeated(l, table) == DeclaredVariableRows(l) \subseteq Range(table)

(* C1: after a define_variable call the table holds every declared row      *)
(* once, the rows that were there keep their slots, and a call that names   *)
(* only rows that exist adds no row and leaves get_index for them as it was.*)
C1_IdempotentDeclaration ==
    [][last'.op = "define_variable" =>
          /\ \A i, j \in 1..Len(variables') : variables'[i] = variables'[j] => i = j
          /\ Range(variables') = Range(variables) \cup DeclaredVariableRows(last')
          /\ Len(variables') >= Len(variables)
          /\ \A i \in 1..Len(variables) : variables'[i] = variables[i]
          /\ Repeated(last', variables) =>
                /\ Len(variables') = Len(variables)
                /\ get_index(variables', Keys(last'.name, last'.keys), TRUE)
                     = get_index(variables, Keys(last'.name, last'.keys), TRUE)
                /\ ~get_index(variables', Keys(last'.name, last'.keys), TRUE).raised]_vars

\* a declaration of two rows that were there already, behind a row of the
\* other name, added no row
C1_Witness ==
    /\ last.op = "define_variable"
    /\ last.before = Len(variables)
    /\ get_index(variables, Keys(last.name, last.keys), TRUE).index = <<1, 2>>

-----------------------------------------------------------------------------
(* C8: a define_constraint call without a variable term, or without an      *)
(* operator, raises and leaves a_dict, b_dict, the constraint registry and  *)
(* the constraint count as they were.                                       *)
C8_NoVariableNoOperatorRaises ==
    [][(/\ last'.op = "define_constraint"
        /\ \/ ~HasVariableTerm(last'.elements)
           \/ OperatorPositions(last'.elements) = {})
       => /\ last'.raised
          /\ UNCHANGED <<a_dict, b_dict, constraints, constraints_len>>]_vars

\* a call without operator raised in a state that holds rows of an earlier
\* declaration
C8_Witness ==
    /\ last.op = "define_constraint"
    /\ OperatorPositions(last.elements) = {}
    /\ HasVariableTerm(last.elements)
    /\ last.raised
    /\ constraints_len > 0 /\ a_dict # <<>> /\ constraints # <<>>

(* C9: a define_constraint call with more than one operator, or with the    *)
(* operator as first or last element, raises and registers no constraint.   *)
C9_OperatorPlacementRaises ==
    [][(/\ last'.op = "define_constraint"
        /\ \/ Cardinality(OperatorPositions(last'.elements)) > 1
           \/ IsOp(last'.elements[1])
           \/ IsOp(last'.elements[Len(last'.elements)]))
       => /\ last'.raised
          /\ constraints' = constraints
          /\ constraints_len' = constraints_len]_vars

-----------------------------------------------------------------------------
(* Inputs of the specification SpecShape: the variables a[0], a[1], b and   *)
(* t[1], t[2] (timestep keys), and declarations whose factors and constants *)
(* are scalars, flat arrays and 2-D arrays, with and without broadcast.     *)

TKeys == Keys("t", <<Key("timestep", TimestepValues)>>)

FirstTerms ==
    {VarTerm(Lit(Scalar(1)), TKeys),
     VarTerm(Lit(Flat(<<1>>)), TKeys),
     VarTerm(Lit(Flat(<<1, 2>>)), TKeys),
     VarTerm(Lit(Matrix(<<<<1, 0>>, <<0, 1>>>>)), TKeys)}

LaterTerms ==
    {VarTerm(Lit(Scalar(2)), Keys("b", <<>>)),
     VarTerm(Lit(Scalar(1)), TKeys),
     VarTerm(Lit(Flat(<<1, 2>>)), Keys("a", <<>>)),
     VarTerm(Lit(Matrix(<<<<1>>, <<2>>>>)), Keys("b", <<>>))}

ConstantTerms ==
    {ConTerm(Lit(Scalar(3)), NoKeys),
     ConTerm(Lit(Flat(<<3>>)), NoKeys),
     ConTerm(Lit(Flat(<<3, 4>>)), NoKeys),
     ConTerm(Lit(Flat(<<3>>)), TKeys),
     ConTerm(Lit(Matrix(<<<<3>>, <<4>>>>)), NoKeys),
     ConTerm(Lit(Matrix(<<<<3, 4>>>>)), NoKeys)}

Broadcasts == {NoBroadcast, <<"timestep">>}

ShapeCalls ==
    {Call(<<x, Op("<="), c>>, NoKeys, bc) :
        x \in FirstTerms, c \in ConstantTerms, bc \in Broadcasts}
    \cup
    {Call(<<x, Op("=="), y, C3>>, NoKeys, NoBroadcast) : x \in FirstTerms, y \in LaterTerms}

NextShape ==
    \/ DefineVariable("a", <<Key("idx", IdxValues)>>)
    \/ DefineVariable("b", <<>>)
    \/ DefineVariable("t", <<Key("timestep", TimestepValues)>>)
    \/ \E c \in ShapeCalls : DefineConstraint(c.elements, c.keys, c.broadcast)

SpecShape == Init /\ [][NextShape]_vars

IsVariableTerm(e) == e.type = "variable"
IsConstantTerm(e) == e.type = "constant"

\* How often the block of a term is repeated: the product of the lengths of
\* the broadcast keys that the term gives.
RECURSIVE TiledTimes(_, _)
TiledTimes(broadcast, keys) ==
    IF broadcast = <<>> \/ keys.none THEN 1
    ELSE (IF HasKey(keys, broadcast[1]) THEN Len(KeyOf(keys, broadcast[1]).vals) ELSE 1)
         * TiledTimes(Tail(broadcast), keys)

\* The shape of the coefficient of a variable term, its block taken `times`
\* times: a scalar is the identity on the slice, a flat array one row.
CoefficientShape(e, times) ==
    LET v == ValueOf(e.coef) IN
    IF v.dim = 0 THEN <<Len(SlotsOf(e.keys)), Len(SlotsOf(e.keys))>>
    ELSE <<NRows(v.m) * times, NCols(v.m) * times>>

\* The number of entries of a constant, taken `times` times; a scalar fills
\* the rows there are.
ConstantEntries(e, times, rows) ==
    LET v == ValueOf(e.coef) IN
    IF v.dim = 0 THEN rows ELSE NRows(v.m) * NCols(v.m) * times

\* The statement of the claim for the call l that moved the constraint count
\* from l.before to len_, with Times(keys) the repetitions of a term's block.
RowCountFixed(l, len_, Times(_)) ==
    LET vs == SelectSeq(l.elements, IsVariableTerm)
        cs == SelectSeq(l.elements, IsConstantTerm)
        rows == CoefficientShape(vs[1], Times(vs[1].keys))[1]
        fits ==
            /\ \A i \in 2..Len(vs) :
                  CoefficientShape(vs[i], Times(vs[i].keys))
                    = <<rows, Len(SlotsOf(vs[i].keys))>>
            /\ \A i \in 1..Len(cs) :
                  ConstantEntries(cs[i], Times(cs[i].keys), rows) = rows
    IN  /\ ~fits => l.raised
        /\ ~l.raised =>
              len_ - l.before = rows * (IF OperatorOf(l.elements) = "==" THEN 2 ELSE 1)

Once(keys) == 1
LastTimes(keys) == TiledTimes(last.broadcast, keys)

(* C10 as stated: the first variable term fixes the row count (scalar on n  *)
(* variables: n, flat array: 1, 2-D array: its rows), later variable terms  *)
(* and constants that do not match it make the call raise.                  *)
C10_FirstTermFixesRowCount ==
    (last.op = "define_constraint" /\ WellFormed(last.elements))
        => RowCountFixed(last, constraints_len, Once)

(* C10 with broadcast: as stated, with the block of a flat or 2-D factor    *)
(* and the entries of a flat or 2-D constant taken once per combination of  *)
(* the broadcast key values that the term gives.                            *)
C10_FirstTermFixesRowCountTiled ==
    (last.op = "define_constraint" /\ WellFormed(last.elements))
        => RowCountFixed(last, constraints_len, LastTimes)

\* a broadcast declaration with a flat factor of one entry and a flat
\* constant of one entry, both on two timesteps, consumed two rows
C10_Witness ==
    /\ last.op = "define_constraint" /\ ~last.raised
    /\ last.broadcast = <<"timestep">>
    /\ last.elements = <<VarTerm(Lit(Flat(<<1>>)), TKeys), Op("<="),
                         ConTerm(Lit(Flat(<<3>>)), TKeys)>>
    /\ constraints_len = last.before + 2

-----------------------------------------------------------------------------
(* Inputs of the specification SpecBroadcast: the variable a on two         *)
(* timesteps and two idx values, declared with the timestep key first or    *)
(* last, and declarations on all timesteps with broadcast or on one         *)
(* timestep without.                                                        *)

ATimesteps == Keys("a", <<Key("timestep", TimestepValues)>>)

Blocks ==
    {Scalar(1), Flat(<<1, 2>>), Matrix(<<<<1, 0>>, <<0, 1>>>>), Matrix(<<<<1, 2>>, <<3, 4>>>>)}

BroadcastCalls ==
    {Call(<<VarTerm(Lit(B), ATimesteps), Op(o), C3>>, NoKeys, <<"timestep">>) :
        B \in Blocks, o \in {"<=", "=="}}

TimestepCalls ==
    {Call(<<VarTerm(Lit(B), Keys("a", <<KeyScalar("timestep", t)>>)), Op("<="), C3>>,
          NoKeys, NoBroadcast) : B \in Blocks, t \in Range(TimestepValues)}

NextBroadcast ==
    \/ DefineVariable("a", <<Key("timestep", TimestepValues), Key("idx", IdxValues)>>)
    \/ DefineVariable("a", <<Key("idx", IdxValues), Key("timestep", TimestepValues)>>)
    \/ \E c \in BroadcastCalls \cup TimestepCalls :
          DefineConstraint(c.elements, c.keys, c.broadcast)

SpecBroadcast == Init /\ [][NextBroadcast]_vars

\* The keys with the timestep list replaced by the single timestep t.
WithTimestep(keys, t) ==
    [keys EXCEPT !.ks = [k \in 1..Len(keys.ks) |->
        IF keys.ks[k].col = "timestep" THEN KeyScalar("timestep", t) ELSE keys.ks[k]]]

\* The elements of a declaration, every term on the timestep t only.
AtTimestep(elements, t) ==
    [i \in 1..Len(elements) |->
        IF elements[i].keys.none THEN elements[i]
        ELSE [elements[i] EXCEPT !.keys = WithTimestep(@, t)]]

\* A problem without declarations of constraints.
NoConstraints ==
    [a_dict |-> <<>>, b_dict |-> <<>>, constraints |-> <<>>, constraints_len |-> 0,
     ci_set |-> FALSE, ci |-> <<>>, raised |-> FALSE]

\* The declaration made once per timestep of ts, without broadcast.
RECURSIVE DeclarePerTimestep(_, _, _)
DeclarePerTimestep(st, elements, ts) ==
    IF ts = <<>> THEN st
    ELSE DeclarePerTimestep(
            define_constraint(variables, parameters, st, AtTimestep(elements, ts[1]),
                              NoKeys, NoBroadcast),
            elements, Tail(ts))

\* The inequalities of the rows: the coefficients on all variable slots and
\* the right-hand side.
Inequalities(A, B, rows) == {<<A[r], B[r]>> : r \in rows}

\* The timesteps of the first term of the last declaration.
LastTimesteps == KeyOf(last.elements[1].keys, "timestep").vals

LastIsBroadcast ==
    /\ last.op = "define_constraint" /\ ~last.raised
    /\ last.broadcast = <<"timestep">>

(* C11: a declaration with broadcast over the timesteps compiles to the     *)
(* same inequalities on the same variable slots as the declaration made     *)
(* once per timestep with that timestep as explicit key, in whatever order  *)
(* the keys of the variable were declared.                                  *)
C11_BroadcastAsPerTimestep ==
    LastIsBroadcast =>
        LET st == DeclarePerTimestep(NoConstraints, last.elements, LastTimesteps)
            A == get_a_matrix(st.a_dict, parameters, st.constraints_len, variables)
            B == get_b_vector(st.b_dict, parameters, st.constraints_len)
        IN  /\ ~st.raised /\ ~A.raised /\ ~B.raised
            /\ ~AMatrix.raised /\ ~BVector.raised
            /\ Inequalities(AMatrix.m, BVector.m, LastRows)
                 = Inequalities(A.m, B.m, 0..(st.constraints_len - 1))

-----------------------------------------------------------------------------
(* Inputs of the specification SpecIndex: declarations of a and b and       *)
(* get_index calls with lists, tuples and single values, on columns with    *)
(* and without values, with and without a match.                            *)

IndexKeys ==
    {<<>>,
     <<Key("idx", IdxValues)>>,
     <<Key("idx", <<1>>)>>,
     <<KeyScalar("idx", 0)>>,
     <<Key("idx", <<5>>)>>,
     <<KeyTuple("timestep", TimestepValues)>>,
     <<Key("timestep", <<2>>), Key("idx", <<1, 0>>)>>,
     <<KeyScalar("timestep", 1)>>}

NextIndex ==
    \/ \E name \in VariableNames :
          \E keys \in {<<>>, <<Key("idx", IdxValues)>>,
                       <<Key("timestep", TimestepValues)>>,
                       <<Key("timestep", TimestepValues), Key("idx", IdxValues)>>} :
             DefineVariable(name, keys)
    \/ \E name \in VariableNames \cup {NoName}, ks \in IndexKeys, flag \in BOOLEAN :
          GetIndex(Keys(name, ks), flag)

SpecIndex == Init /\ [][NextIndex]_vars

\* The positions of the rows whose value in every given key column is one of
\* the given values.
MatchingPositions(table, keys) ==
    {i \in 0..(Len(table) - 1) :
        /\ keys.name # NoName => table[i + 1].name = keys.name
        /\ \A k \in 1..Len(keys.ks) :
              \E j \in 1..Len(keys.ks[k].vals) :
                 GetCol(table[i + 1], keys.ks[k].col) = keys.ks[k].vals[j]}

\* The sequence is the set, in increasing order.
IsSorted(index, positions) ==
    /\ Range(index) = positions
    /\ \A i, j \in 1..Len(index) : i < j => index[i] < index[j]

\* Every given key names a column of the table.
KnownColumns(table, keys) == \A k \in 1..Len(keys.ks) : HasColumn(table, keys.ks[k].col)

(* C12: get_index, given keys that name columns of the table, returns the   *)
(* positions of the rows that have one of the given values in every given   *)
(* key column; without such a row it raises when raise_empty_index_error is *)
(* true and returns the empty array when it is false.                       *)
C12_GetIndexPositions ==
    (last.op = "get_index" /\ KnownColumns(variables, last.keys)) =>
        LET positions == MatchingPositions(variables, last.keys) IN
        IF positions # {}
        THEN ~last.raised /\ IsSorted(last.index, positions)
        ELSE IF last.raise_empty_index_error THEN last.raised
        ELSE ~last.raised /\ last.index = <<>>

-----------------------------------------------------------------------------
(* The solver behind solve(): what a convex-QP solver answers on the        *)
(* standard form  min c x + 1/2 x'Qx + d  s.t.  A x <= b.  Every answer is  *)
(* backed by a certificate over small integers: a KKT pair for "optimal", a *)
(* Farkas vector for "infeasible", a descent ray for "unbounded".           *)
(* Objective values are kept doubled, so that the factor 0.5 of the         *)
(* quadratic term stays an integer.                                         *)

XGridMax == 5    \* the entries of a solver's x are 0 .. XGridMax
MuMax == 2       \* the entries of a solver's multipliers are 0 .. MuMax

Statuses == {"optimal", "suboptimal", "infeasible", "unbounded", "infeasible_or_unbounded"}


\* The sum of the entries of a vector f on the slots 0 .. n - 1.
RECURSIVE SumTo(_, _)
SumTo(f, n) == IF n = 0 THEN 0 ELSE f[n - 1] + SumTo(f, n - 1)
Sum0(f) == SumTo(f, Cardinality(DOMAIN f))

\* (A x)[r]
AX(A, x, r) == Sum0([c \in DOMAIN x |-> A[r][c] * x[c]])
\* (A' mu)[c]
ATMu(A, mu, c) == Sum0([r \in DOMAIN mu |-> A[r][c] * mu[r]])
\* ((Q + Q') x)[j]: twice the gradient of 1/2 x'Qx
QX2(Q, x, j) == Sum0([k \in DOMAIN x |-> (Q[j][k] + Q[k][j]) * x[k]])

Feasible(A, b, x) == \A r \in DOMAIN A : AX(A, x, r) <= b[r]

\* Q symmetric positive semidefinite, in the form the declarations of the
\* model give it: diagonal with entries >= 0.
Convex(Q) == \A j, k \in DOMAIN Q : IF j = k THEN Q[j][j] >= 0 ELSE Q[j][k] = 0

\* The rows that hold with equality at x, and the multipliers that vanish
\* on the other rows (complementary slackness).
ActiveRows(A, b, x) == {r \in DOMAIN A : AX(A, x, r) = b[r]}
Complementary(A, b, x) ==
    UNION {{[r \in DOMAIN A |-> IF r \in active THEN m[r] ELSE 0] :
               m \in [active -> 0..MuMax]} : active \in {ActiveRows(A, b, x)}}

Stationary(A, c, Q, x, mu) ==
    \A j \in DOMAIN x : 2 * c[j] + QX2(Q, x, j) + 2 * ATMu(A, mu, j) = 0

KKT(A, b, c, Q, x, mu) ==
    /\ Feasible(A, b, x)
    /\ mu \in Complementary(A, b, x)
    /\ Stationary(A, c, Q, x, mu)

Infeasible(A, b) ==
    \E y \in [DOMAIN A -> 0..MuMax] :
        /\ \A c \in VariableSlots : ATMu(A, y, c) = 0
        /\ Sum0([r \in DOMAIN A |-> b[r] * y[r]]) < 0

Unbounded(A, b, c, Q) ==
    /\ \E x \in [DOMAIN c -> 0..XGridMax] : Feasible(A, b, x)
    /\ \E ray \in [DOMAIN c -> (-1)..1] :
          /\ \A r \in DOMAIN A : AX(A, ray, r) <= 0
          /\ \A j \in DOMAIN c : QX2(Q, ray, j) = 0
          /\ Sum0([j \in DOMAIN c |-> c[j] * ray[j]]) < 0

\* The answer [status, x, mu] is one that a solver can give on (A, b, c, Q).
SolverAnswer(A, b, c, Q, status, x, mu) ==
    CASE status = "optimal" -> KKT(A, b, c, Q, x, mu)
      [] status = "suboptimal" ->
            Feasible(A, b, x) /\ ~KKT(A, b, c, Q, x, mu) /\ ~Unbounded(A, b, c, Q)
      [] status = "infeasible" -> Infeasible(A, b)
      [] status = "unbounded" -> Unbounded(A, b, c, Q)
      [] OTHER -> Infeasible(A, b) \/ Unbounded(A, b, c, Q)

-----------------------------------------------------------------------------
(* get_gurobi_problem / get_cvxpy_problem, solve_gurobi / solve_cvxpy.      *)

\* The objective expression handed to both back-ends,
\* c @ x + x @ (0.5 * Q) @ x + d, at x (doubled).
problem_objective(c, Q, d, x) ==
    2 * Sum0([j \in DOMAIN x |-> c[j] * x[j]])
    + Sum0([j \in DOMAIN x |-> x[j] * Sum0([k \in DOMAIN x |-> Q[j][k] * x[k]])])
    + 2 * d

\* A stored dual vector: flat = FALSE for the column shape (m, 1), TRUE for
\* the shape (m, ); nan = TRUE when every entry is NaN.
MuColumn(m) == [flat |-> FALSE, nan |-> FALSE, m |-> m]
MuNaN(rows) == [flat |-> TRUE, nan |-> TRUE, m |-> [r \in rows |-> 0]]

\* solve_gurobi: [raised, x_vector, mu_vector, objective].  Pi, the
\* sensitivity of the minimum to b, is the negated multiplier of A x <= b;
\* quadratic = TRUE when quadratic or SOC constraints were added to the
\* gurobipy model (NumQCNZs # 0).
solve_gurobi(c, Q, d, status, x, mu, quadratic) ==
    IF status \notin {"optimal", "suboptimal"}
    THEN [raised |-> TRUE, x_vector |-> x, mu_vector |-> MuColumn(mu), objective |-> 0]
    ELSE [raised |-> FALSE,
          x_vector |-> x,
          mu_vector |-> IF quadratic THEN MuNaN(DOMAIN mu)
                        ELSE MuColumn([r \in DOMAIN mu |-> 0 - mu[r]]),
          objective |-> problem_objective(c, Q, d, x)]

\* solve_cvxpy: [raised, x_vector, mu_vector, objective]; "suboptimal" is
\* CVXPY's optimal_inaccurate.
solve_cvxpy(c, Q, d, status, x, mu) ==
    IF status # "optimal"
    THEN [raised |-> TRUE, x_vector |-> x, mu_vector |-> MuColumn(mu), objective |-> 0]
    ELSE [raised |-> FALSE, x_vector |-> x, mu_vector |-> MuColumn(mu),
          objective |-> problem_objective(c, Q, d, x)]

\* Without the fall-back to CVXPY: a direct interface of another solver than
\* Gurobi is an invalid configuration (not what the code does).
solver_backend_no_fallback(solver_interface, solver_name) ==
    IF solver_interface = "cvxpy" THEN "cvxpy"
    ELSE IF solver_interface = "direct" /\ solver_name = "gurobi" THEN "gurobi"
    ELSE ""

\* The back-end that solve() takes for the configuration: "" for none
\* (ValueError).
SolverConfigurations == {<<"cvxpy", "gurobi">>, <<"direct", "gurobi">>, <<"direct", "other">>, <<"other", "gurobi">>}

solver_backend(solver_interface, solver_name) ==
    IF solver_interface = "cvxpy" THEN "cvxpy"
    ELSE IF solver_interface = "direct"
         THEN (IF solver_name = "gurobi" THEN "gurobi" ELSE "cvxpy")
         ELSE ""

-----------------------------------------------------------------------------
(* get_results and get_duals.  A table of values is the sequence of its     *)
(* cells [timestep, idx, value], a label that the table does not have NaN.  *)

Dimensions(rows) == drop_duplicates([i \in 1..Len(rows) |-> [timestep |-> rows[i].timestep, idx |-> rows[i].idx]])

\* dropna(axis=1): a column stays when none of its entries is NaN.
KeepsColumn(dims, col) == \A i \in 1..Len(dims) : dims[i][col] # NaN

Cell(dims, i, value) ==
    [timestep |-> IF KeepsColumn(dims, "timestep") THEN dims[i].timestep ELSE NaN,
     idx |-> IF KeepsColumn(dims, "idx") THEN dims[i].idx ELSE NaN,
     value |-> value]

\* The entry of get_results for one name: [raised, name, scalar, cells].
variable_result(table, x, name) ==
    LET index == flatnonzero(table, Keys(name, <<>>), 1)
        dims == Dimensions([i \in 1..Len(index) |-> table[index[i] + 1]])
        scalar == ~KeepsColumn(dims, "timestep") /\ ~KeepsColumn(dims, "idx")
    IN  IF \/ \E i \in 1..Len(index) : index[i] \notin DOMAIN x
           \/ scalar /\ Len(index) # 1
        THEN [raised |-> TRUE, name |-> name, scalar |-> scalar, cells |-> <<>>]
        ELSE [raised |-> FALSE, name |-> name, scalar |-> scalar,
              cells |-> [i \in 1..Len(index) |-> Cell(dims, i, x[index[i]])]]

\* name.unique(): the names in the order of their first rows
unique_names(table) == drop_duplicates([i \in 1..Len(table) |-> table[i].name])

\* get_results(): [raised, entries], one entry per name.
get_results(table, x) ==
    LET names == unique_names(table)
        entries == [n \in 1..Len(names) |-> variable_result(table, x, names[n])]
    IN  IF \E n \in 1..Len(names) : entries[n].raised
        THEN [raised |-> TRUE, entries |-> <<>>]
        ELSE [raised |-> FALSE,
              entries |-> [n \in 1..Len(names) |->
                  [name |-> entries[n].name, scalar |-> entries[n].scalar,
                   cells |-> entries[n].cells]]]

\* The labels (row slots) of the rows of a name with a constraint type.
RECURSIVE constraint_labels(_, _, _)
constraint_labels(registry, name, constraint_type) ==
    IF registry = <<>> THEN <<>>
    ELSE (IF registry[1].name = name /\ registry[1].constraint_type = constraint_type
          THEN <<registry[1].label>> ELSE <<>>)
         \o constraint_labels(Tail(registry), name, constraint_type)

\* 0.0 - mu[first] - mu[second] with numpy's broadcasting: [raised, values].
dual_sum(mu, first, second) ==
    IF Len(first) # Len(second) /\ Len(first) # 1 /\ Len(second) # 1
    THEN [raised |-> TRUE, values |-> <<>>]
    ELSE LET n == IF Len(first) = 1 THEN Len(second)
                  ELSE IF Len(second) = 1 THEN Len(first) ELSE Len(first)
             At(labels, i) == mu[labels[IF Len(labels) = 1 THEN 1 ELSE i]]
         IN  [raised |-> FALSE,
              values |-> [i \in 1..n |-> 0 - At(first, i) - At(second, i)]]

\* The values that get_duals takes for a name: the branch is chosen by the
\* first of "==", ">=", "<=" that one of the name's constraint types contains.
dual_values(registry, mu, name) ==
    LET types == {registry[i].constraint_type :
                     i \in {j \in 1..Len(registry) : registry[j].name = name}}
        labels == IF types \cap {"==>=", "==<="} # {}
                  THEN constraint_labels(registry, name, "==>=")
                       \o constraint_labels(registry, name, "==<=")
                  ELSE IF ">=" \in types THEN constraint_labels(registry, name, ">=")
                  ELSE constraint_labels(registry, name, "<=")
    IN  IF \/ mu.flat
           \/ \E i \in 1..Len(labels) : labels[i] \notin DOMAIN mu.m
        THEN [raised |-> TRUE, values |-> <<>>]
        ELSE IF types \cap {"==>=", "==<="} # {}
        THEN (IF constraint_labels(registry, name, "==>=") = <<>>
                 \/ constraint_labels(registry, name, "==<=") = <<>>
              THEN [raised |-> TRUE, values |-> <<>>]
              ELSE dual_sum(mu.m, constraint_labels(registry, name, "==>="),
                            constraint_labels(registry, name, "==<=")))
        ELSE [raised |-> FALSE, values |-> [i \in 1..Len(labels) |-> 0 - mu.m[labels[i]]]]

\* The entry of get_duals for one name: [raised, name, cells].
\* MultiIndex.from_frame raises on a frame without columns, Series(...) on
\* values that are not as many as the key combinations, and unstack on an
\* index whose only level is unstacked.
constraint_dual(registry, mu, name) ==
    LET IsOfName(row) == row.name = name
        dims == Dimensions(SelectSeq(registry, IsOfName))
        result == dual_values(registry, mu, name)
    IN  IF \/ ~KeepsColumn(dims, "timestep")
           \/ result.raised
           \/ Len(result.values) # Len(dims)
        THEN [raised |-> TRUE, name |-> name, cells |-> <<>>]
        ELSE [raised |-> FALSE, name |-> name,
              cells |-> [i \in 1..Len(dims) |-> Cell(dims, i, result.values[i])]]

\* get_duals(): [raised, entries], one entry per name of the registry.
get_duals(registry, mu) ==
    LET names == unique_names(registry)
        entries == [n \in 1..Len(names) |-> constraint_dual(registry, mu, names[n])]
    IN  IF \E n \in 1..Len(names) : entries[n].raised
        THEN [raised |-> TRUE, entries |-> <<>>]
        ELSE [raised |-> FALSE,
              entries |-> [n \in 1..Len(names) |->
                  [name |-> entries[n].name, cells |-> entries[n].cells]]]

\* The objective with Q in place of 0.5 Q (not what the code does).
evaluate_objective_full_q(c, Q, d, x) ==
    IF c.raised \/ Q.raised \/ d.raised THEN [raised |-> TRUE, objective |-> 0]
    ELSE [raised |-> FALSE,
          objective |-> 2 * Sum0([j \in DOMAIN x |-> c.m[j] * x[j]])
                        + 2 * Sum0([j \in DOMAIN x |->
                                   Sum0([k \in DOMAIN x |-> x[j] * Q.m[j][k] * x[k]])])
                        + 2 * d.d]

\* evaluate_objective(x_vector): [raised, objective], the objective doubled.
evaluate_objective(c, Q, d, x) ==
    IF c.raised \/ Q.raised \/ d.raised THEN [raised |-> TRUE, objective |-> 0]
    ELSE [raised |-> FALSE,
          objective |-> 2 * Sum0([j \in DOMAIN x |-> c.m[j] * x[j]])
                        + Sum0([j \in DOMAIN x |->
                                   Sum0([k \in DOMAIN x |-> x[j] * Q.m[j][k] * x[k]])])
                        + 2 * d.d]

-----------------------------------------------------------------------------
(* The actions of solving and reading.                                      *)

ZeroX == [c \in VariableSlots |-> 0]
ZeroMu == [r \in RowSlots |-> 0]

\* get_gurobi_problem / get_cvxpy_problem: the compiled standard form, in
\* the order of the calls.
get_problem == [a |-> AMatrix, b |-> BVector, c |-> CVector, q |-> QMatrix, d |-> DConstant]

\* The problem is compiled and the back-end accepts it.
ProblemOk(problem) ==
    /\ ~problem.a.raised /\ ~problem.b.raised /\ ~problem.c.raised
    /\ ~problem.q.raised /\ ~problem.d.raised
    /\ Convex(problem.q.m)

\* get_*_problem reaches get_d_constant, whose read of self.d_dict[0] leaves
\* the key 0 in the defaultdict.
ProblemReadsD(problem) ==
    ~problem.a.raised /\ ~problem.b.raised /\ ~problem.c.raised /\ ~problem.q.raised

\* The answers [status, x, mu] that a solver can give on the problem.  An
\* answer without a solution carries no x and no mu, an inaccurate one is
\* x = 0 (a solver's starting point) without multipliers, and a variable
\* that the problem does not mention comes back as 0.
Mentioned(A, c, Q, j) ==
    \/ c[j] # 0
    \/ \E r \in DOMAIN A : A[r][j] # 0
    \/ \E k \in DOMAIN Q : Q[j][k] # 0 \/ Q[k][j] # 0

FeasibleX(A, b, c, Q) ==
    UNION {{x \in {[j \in DOMAIN c |-> IF j \in mentioned THEN y[j] ELSE 0] :
                      y \in [mentioned -> 0..XGridMax]} : Feasible(A, b, x)} :
           mentioned \in {{j \in DOMAIN c : Mentioned(A, c, Q, j)}}}

NoSolution(status) == [status |-> status, x |-> ZeroX, mu |-> ZeroMu]

Answers(problem) ==
    LET A == problem.a.m
        b == problem.b.m
        c == problem.c.m
        Q == problem.q.m
    IN  IF Infeasible(A, b)
        THEN {NoSolution("infeasible"), NoSolution("infeasible_or_unbounded")}
        ELSE IF Unbounded(A, b, c, Q)
        THEN {NoSolution("unbounded"), NoSolution("infeasible_or_unbounded")}
        ELSE UNION {{[status |-> "optimal", x |-> x, mu |-> mu] :
                        mu \in {m \in Complementary(A, b, x) : Stationary(A, c, Q, x, m)}}
                    \cup (IF x # ZeroX \/ KKT(A, b, c, Q, x, ZeroMu) THEN {}
                          ELSE {[status |-> "suboptimal", x |-> x, mu |-> ZeroMu]}) :
                    x \in FeasibleX(A, b, c, Q)}

\* With quadratic or SOC constraints added to the gurobipy model: an x
\* within A x <= b, or no solution.
QuadraticAnswers(problem) ==
    {[status |-> "optimal", x |-> x, mu |-> ZeroMu] :
        x \in FeasibleX(problem.a.m, problem.b.m, problem.c.m, problem.q.m)}
    \cup {NoSolution("infeasible")}

\* solve() under the configuration (solver_interface, solver_name): the
\* problem is compiled, the back-end's solver gives one of its answers, the
\* solution is stored and read into results and duals.
Solve(solver_interface, solver_name) ==
    \E problem \in {get_problem} :
    LET backend == solver_backend(solver_interface, solver_name)
        called == backend # "" /\ ProblemOk(problem)
    IN  \E reply \in IF called THEN Answers(problem) ELSE {NoSolution("none")} :
        \E answer \in {IF backend = "gurobi"
                        THEN solve_gurobi(problem.c.m, problem.q.m, problem.d.d,
                                          reply.status, reply.x, reply.mu, FALSE)
                        ELSE solve_cvxpy(problem.c.m, problem.q.m, problem.d.d,
                                         reply.status, reply.x, reply.mu)} :
        \E res \in {get_results(variables, answer.x_vector)} :
        \E dua \in {get_duals(constraints, answer.mu_vector)} :
        LET stored == called /\ ~answer.raised
        IN  /\ x_vector' = IF stored THEN Assigned(answer.x_vector) ELSE x_vector
            /\ mu_vector' = IF stored THEN Assigned(answer.mu_vector) ELSE mu_vector
            /\ objective' = IF stored THEN Assigned(answer.objective) ELSE objective
            /\ results' = IF stored /\ ~res.raised THEN Assigned(res.entries) ELSE results
            /\ duals' = IF stored /\ ~res.raised /\ ~dua.raised THEN Assigned(dua.entries)
                        ELSE duals
            /\ d_dict_keys' = IF backend # "" /\ ProblemReadsD(problem) THEN {0}
                              ELSE d_dict_keys
            /\ last' = [op |-> "solve", raised |-> ~stored \/ res.raised \/ dua.raised,
                        backend |-> backend, called |-> called, stored |-> stored,
                        status |-> reply.status,
                        solver_interface |-> solver_interface,
                        solver_name |-> solver_name]
            /\ UNCHANGED <<variables, constraints, constraints_len, parameters,
                           a_dict, b_dict, c_dict, q_dict, d_dict, calls>>

\* The low-level workflow on Gurobi: get_gurobi_problem(), quadratic or SOC
\* constraints added to the gurobipy model, solve_gurobi().
SolveGurobiQuadratic ==
    \E problem \in {get_problem} :
    LET called == ProblemOk(problem)
    IN  \E reply \in IF called THEN QuadraticAnswers(problem) ELSE {NoSolution("none")} :
        LET answer == solve_gurobi(problem.c.m, problem.q.m, problem.d.d,
                                   reply.status, reply.x, reply.mu, TRUE)
            stored == called /\ ~answer.raised
        IN  /\ x_vector' = IF stored THEN Assigned(answer.x_vector) ELSE x_vector
            /\ mu_vector' = IF stored THEN Assigned(answer.mu_vector) ELSE mu_vector
            /\ objective' = IF stored THEN Assigned(answer.objective) ELSE objective
            /\ d_dict_keys' = IF ProblemReadsD(problem) THEN {0} ELSE d_dict_keys
            /\ last' = [op |-> "solve_gurobi", raised |-> ~stored,
                        backend |-> "gurobi", called |-> called, stored |-> stored,
                        status |-> reply.status]
            /\ UNCHANGED <<variables, constraints, constraints_len, parameters,
                           a_dict, b_dict, c_dict, q_dict, d_dict, calls, results, duals>>

\* get_duals(): a read of the registry and of self.mu_vector, which is no
\* attribute before a solve has stored it.
GetDuals ==
    /\ LET dua == IF mu_vector.set THEN get_duals(constraints, mu_vector.v[1])
                  ELSE [raised |-> constraints # <<>>, entries |-> <<>>]
       IN  last' = [op |-> "get_duals", raised |-> dua.raised, entries |-> dua.entries]
    /\ UNCHANGED <<variables, constraints, constraints_len, parameters,
                   a_dict, b_dict, c_dict, q_dict, d_dict, d_dict_keys, solution, calls>>

\* evaluate_objective(x)
EvaluateObjective(x) ==
    /\ LET value == evaluate_objective(CVector, QMatrix, DConstant, x)
       IN  last' = [op |-> "evaluate_objective", raised |-> value.raised,
                    objective |-> value.objective, x |-> x]
    /\ d_dict_keys' = IF ~CVector.raised /\ ~QMatrix.raised THEN {0} ELSE d_dict_keys
    /\ UNCHANGED <<variables, constraints, constraints_len, parameters,
                   a_dict, b_dict, c_dict, q_dict, d_dict, solution, calls>>

\* A compilation: get_a_matrix(), get_b_vector(), get_c_vector(),
\* get_q_matrix() and get_d_constant(), each called once.
Compile ==
    /\ last' = [op |-> "compile", raised |-> ~CompileOk,
                a |-> AMatrix, b |-> BVector, c |-> CVector, q |-> QMatrix,
                d |-> DConstant]
    /\ d_dict_keys' = {0}
    /\ UNCHANGED <<variables, constraints, constraints_len, parameters,
                   a_dict, b_dict, c_dict, q_dict, d_dict, solution, calls>>

------------------------------------------------------------------------

-----------------------------------------------------------------------------
(* Inputs of the specification SpecSolve: the scalar variable x, the        *)
(* equality x == 5 with keys, the bound x <= 3, a linear and a quadratic    *)
(* objective, solves under every configuration, compilations and            *)
(* evaluations of the objective.                                            *)

Vx(k) == VarTerm(Lit(Scalar(k)), Keys("x", <<>>))
Cn(n) == ConTerm(Lit(Scalar(n)), NoKeys)

SolveConstraintCalls ==
    {Call(<<Vx(1), Op("=="), Cn(5)>>, Keys("balance", <<Key("timestep", <<1>>)>>), NoBroadcast),
     Call(<<Vx(1), Op("<="), Cn(3)>>, NoKeys, NoBroadcast)}

SolveObjectiveCalls ==
    {<<ObjVar(Lit(Scalar(1)), Keys("x", <<>>))>>,
     <<ObjQuad(Lit(Scalar(2)), Keys("x", <<>>), Keys("x", <<>>)),
       ObjVar(Lit(Scalar(-4)), Keys("x", <<>>)), ObjCon(Lit(Scalar(3)), NoKeys)>>}

\* the vectors x at which the objective is evaluated
EvaluationPoints == [VariableSlots -> {0, 2}]

NextSolve ==
    \/ DefineVariable("x", <<>>)
    \/ \E c \in SolveConstraintCalls : DefineConstraint(c.elements, c.keys, c.broadcast)
    \/ \E elements \in SolveObjectiveCalls : DefineObjective(elements, NoBroadcast)
    \/ \E configuration \in SolverConfigurations : Solve(configuration[1], configuration[2])
    \/ \E x \in EvaluationPoints : EvaluateObjective(x)
    \/ Compile

SpecSolve == Init /\ [][NextSolve]_vars

NoSolutionStatuses == {"infeasible", "unbounded", "infeasible_or_unbounded"}

\* The solve() made last had the solver terminate without a solution.
SolverFailed ==
    last.op = "solve" /\ last.called /\ last.status \in NoSolutionStatuses

(* C13: when the solver terminates infeasible, unbounded or infeasible-or-   *)
(* unbounded, solve() raises and afterwards x_vector, mu_vector, objective, *)
(* results and duals carry no solution values.                              *)
C13_NoResultsAfterFailedSolve ==
    SolverFailed =>
        /\ last.raised
        /\ ~x_vector.set /\ ~mu_vector.set /\ ~objective.set
        /\ ~results.set /\ ~duals.set

(* C14: with either back-end, a solve() whose solver terminates suboptimal  *)
(* with a solution does not raise on the termination and stores x_vector,   *)
(* mu_vector and objective as for an optimal termination.                   *)
C14_SuboptimalStored ==
    (last.op = "solve" /\ last.called /\ last.status = "suboptimal") =>
        /\ last.stored
        /\ x_vector.set /\ mu_vector.set /\ objective.set

------------------------------------------------------------------------

-----------------------------------------------------------------------------
(* Inputs of the specification SpecDuals: the variable a on two timesteps,  *)
(* a bound on a with the timesteps as keys, an equality on a[1] with its    *)
(* timestep as key, an equality on a[1] + a[2] with a name as only key, the *)
(* objective a[1] + a[2], solves on both back-ends, the low-level Gurobi    *)
(* workflow with quadratic constraints, and get_duals() calls.              *)

OnTimesteps(name) == Keys(name, <<Key("timestep", TimestepValues)>>)
Va1 == VarTerm(Lit(Scalar(1)), Keys("a", <<Key("timestep", <<1>>)>>))
VaSum == VarTerm(Lit(Flat(<<1, 1>>)), Keys("a", <<>>))

DualsConstraintCalls ==
    {Call(<<Va, Op(">="), Cn(5)>>, OnTimesteps("limit"), NoBroadcast),
     Call(<<Va1, Op("=="), Cn(5)>>, Keys("fix", <<Key("timestep", <<1>>)>>), NoBroadcast),
     Call(<<VaSum, Op("=="), Cn(10)>>, Keys("total", <<>>), NoBroadcast)}

DualsObjectiveCalls == {<<ObjVar(Lit(Scalar(1)), Keys("a", <<>>))>>}

DualsConfigurations == {<<"cvxpy", "gurobi">>, <<"direct", "gurobi">>}

NextDuals ==
    \/ DefineVariable("a", <<Key("timestep", TimestepValues)>>)
    \/ \E c \in DualsConstraintCalls : DefineConstraint(c.elements, c.keys, c.broadcast)
    \/ \E elements \in DualsObjectiveCalls : DefineObjective(elements, NoBroadcast)
    \/ \E configuration \in DualsConfigurations : Solve(configuration[1], configuration[2])
    \/ SolveGurobiQuadratic
    \/ GetDuals

SpecDuals == Init /\ [][NextDuals]_vars

\* The stored dual vector holds NaN (the solve that stored it ran with
\* quadratic or SOC constraints in the gurobipy model).
DualsAreNaN == mu_vector.set /\ mu_vector.v[1].nan

(* C15: solve_gurobi on a model with quadratic or SOC constraints does not  *)
(* fail for them and stores a dual vector with one NaN per constraint row   *)
(* in the column layout of a regular dual vector, and a get_duals() on it   *)
(* completes.                                                               *)
C15_NaNDualsReadable ==
    /\ (last.op = "solve_gurobi" /\ last.called /\ last.status = "optimal") =>
          /\ last.stored /\ DualsAreNaN
          /\ DOMAIN mu_vector.v[1].m = RowSlots
          /\ ~mu_vector.v[1].flat
    /\ (last.op = "get_duals" /\ DualsAreNaN) => ~last.raised

\* The rows of the constraint registry with a name, and the names.
RowsOfName(name) == {i \in 1..Len(constraints) : constraints[i].name = name}
ConstraintNames == {constraints[i].name : i \in 1..Len(constraints)}
IsEqualityName(name) ==
    \E i \in RowsOfName(name) : constraints[i].constraint_type \in {"==>=", "==<="}

\* The duals of a name as the claim states them, from the dual vector mu:
\* the cells [timestep, idx, value] of its key combinations.
StatedDuals(name, mu) ==
    IF IsEqualityName(name)
    THEN {[timestep |-> constraints[i].timestep, idx |-> constraints[i].idx,
           value |-> 0 - (mu[constraints[i].label] + mu[constraints[j].label])] :
             <<i, j>> \in {p \in RowsOfName(name) \X RowsOfName(name) :
                  /\ constraints[p[1]].constraint_type = "==>="
                  /\ constraints[p[2]].constraint_type = "==<="
                  /\ constraints[p[1]].timestep = constraints[p[2]].timestep
                  /\ constraints[p[1]].idx = constraints[p[2]].idx}}
    ELSE {[timestep |-> constraints[i].timestep, idx |-> constraints[i].idx,
           value |-> 0 - mu[constraints[i].label]] : i \in RowsOfName(name)}

\* The stored dual vector is a regular one with an entry for every row slot.
DualsAreRegular ==
    /\ mu_vector.set /\ ~mu_vector.v[1].nan /\ ~mu_vector.v[1].flat
    /\ DOMAIN mu_vector.v[1].m = RowSlots

(* C16: get_duals() reports every constraint name declared with keys: for   *)
(* an equality, per key combination, -(mu[slot of the ==>= row] + mu[slot   *)
(* of the ==<= row]); for a pure <= or >= name, -mu[slot] of each row.      *)
C16_DualsPerName ==
    (last.op = "get_duals" /\ DualsAreRegular) =>
        /\ ~last.raised
        /\ {last.entries[n].name : n \in 1..Len(last.entries)} = ConstraintNames
        /\ \A n \in 1..Len(last.entries) :
              Range(last.entries[n].cells)
                  = StatedDuals(last.entries[n].name, mu_vector.v[1].m)

\* The problem  minimize x  subject to  x == 5  (the equality declared with
\* keys) is the declared one: its standard form is A = [-1; 1], b = [-5; 5],
\* c = [1], Q = 0.
ToyProblem ==
    /\ Len(variables) = 1 /\ constraints_len = 2 /\ CompileOk
    /\ {constraints[i].constraint_type : i \in 1..Len(constraints)} = {"==>=", "==<="}
    /\ AMatrix.m[0][0] = -1 /\ AMatrix.m[1][0] = 1
    /\ BVector.m[0] = -5 /\ BVector.m[1] = 5
    /\ CVector.m[0] = 1 /\ QMatrix.m[0][0] = 0

\* The stored dual vector satisfies the optimality conditions of the
\* standard form: mu >= 0 and c + A' mu = 0.
StoredDualsOptimal ==
    /\ DualsAreRegular
    /\ \A r \in RowSlots : mu_vector.v[1].m[r] >= 0
    /\ \A j \in VariableSlots : CVector.m[j] + ATMu(AMatrix.m, mu_vector.v[1].m, j) = 0

\* The Lagrange multiplier of the equality x == 5 in minimize x: the
\* multiplier of the row x <= 5 minus that of the row -x <= -5.
EqualityMultiplier == mu_vector.v[1].m[1] - mu_vector.v[1].m[0]

(* C17: for minimize x subject to x == 5, the dual reported for the         *)
(* equality is one value, the Lagrange multiplier of the equality (up to    *)
(* the sign convention), for every stored dual vector that satisfies the    *)
(* optimality conditions of the standard form.                              *)
C17_EqualityDualIsMultiplier ==
    (last.op = "solve" /\ ~last.raised /\ ToyProblem /\ StoredDualsOptimal) =>
        /\ Len(duals.v[1]) = 1
        /\ Len(duals.v[1][1].cells) = 1
        /\ duals.v[1][1].cells[1].value \in {EqualityMultiplier, 0 - EqualityMultiplier}

-----------------------------------------------------------------------------
(* Inputs of the specification SpecResults: declarations of the scalar s    *)
(* and of the name a with the timesteps as keys, with the indices as keys,  *)
(* with one timestep and one index, and get_results(x_vector) calls on      *)
(* vectors x with a value of its own in every slot or the same in all.      *)

\* get_results(x_vector=x): a read of the variable table.
GetResults(x) ==
    /\ LET res == get_results(variables, x)
       IN  last' = [op |-> "get_results", raised |-> res.raised, entries |-> res.entries,
                    x |-> x]
    /\ UNCHANGED <<variables, constraints, constraints_len, parameters,
                   a_dict, b_dict, c_dict, q_dict, d_dict, d_dict_keys, solution, calls>>

ResultsVariableKeys ==
    {<<Key("timestep", TimestepValues)>>,
     <<Key("idx", IdxValues)>>,
     <<Key("timestep", <<1>>), Key("idx", <<0>>)>>}

ResultsVectors == {[j \in VariableSlots |-> 10 + j], [j \in VariableSlots |-> 7]}

NextResults ==
    \/ DefineVariable("s", <<>>)
    \/ \E keys \in ResultsVariableKeys : DefineVariable("a", keys)
    \/ \E x \in ResultsVectors : GetResults(x)

SpecResults == Init /\ [][NextResults]_vars

\* The rows (positions, 1-based) of a name in the variable table, and the
\* names of the table.
VariableRowsOfName(name) == {i \in 1..Len(variables) : variables[i].name = name}
VariableNamesDeclared == {variables[i].name : i \in 1..Len(variables)}

\* The values of x at the slots of a name, each with the key values of its row.
StatedResults(name, x) ==
    {[timestep |-> variables[i].timestep, idx |-> variables[i].idx, value |-> x[i - 1]] :
        i \in VariableRowsOfName(name)}

DeclaredWithoutKeys(name) ==
    \A i \in VariableRowsOfName(name) : variables[i].timestep = NaN /\ variables[i].idx = NaN

(* C18: get_results() returns one entry per declared variable name; the     *)
(* entry of a name holds the values of x at the slots of the rows of the    *)
(* name, each labelled with the key values of its row, one cell per slot;   *)
(* a name declared without keys yields a bare number.                       *)
C18_ResultsPerName ==
    last.op = "get_results" =>
        /\ ~last.raised
        /\ Len(last.entries) = Cardinality(VariableNamesDeclared)
        /\ {last.entries[n].name : n \in 1..Len(last.entries)} = VariableNamesDeclared
        /\ \A n \in 1..Len(last.entries) :
              /\ Len(last.entries[n].cells) = Cardinality(VariableRowsOfName(last.entries[n].name))
              /\ Range(last.entries[n].cells) = StatedResults(last.entries[n].name, last.x)
              /\ DeclaredWithoutKeys(last.entries[n].name) => last.entries[n].scalar

\* c x + 1/2 x' Q x + d, doubled, for compiled c, Q and d.
StatedObjective(c, Q, d, x) ==
    Sum0([j \in DOMAIN x |->
            2 * c[j] * x[j] + x[j] * Sum0([k \in DOMAIN x |-> Q[j][k] * x[k]])])
    + 2 * d

(* C19: evaluate_objective(x) equals c x + 1/2 x' Q x + d for the current   *)
(* compiled c, Q and d, and for the x stored by a solve() it equals the     *)
(* objective value that the solve() stored.                                 *)
C19_EvaluateObjectiveIsStandardForm ==
    \A c \in {CVector}, Q \in {QMatrix}, d \in {DConstant} :
        /\ (last.op = "evaluate_objective" /\ ~last.raised) =>
              last.objective = StatedObjective(c.m, Q.m, d.d, last.x)
        /\ (last.op = "solve" /\ last.stored) =>
              /\ ~evaluate_objective(c, Q, d, x_vector.v[1]).raised
              /\ evaluate_objective(c, Q, d, x_vector.v[1]).objective = objective.v[1]

\* The objective x^2 - 4 x + 3 was minimized subject to x <= 3, and then
\* evaluated at the minimizer x = 2: the value -1 (doubled, -2) both times.
C19_EvaluatedAtMinimizer ==
    /\ last.op = "evaluate_objective" /\ ~last.raised
    /\ x_vector.set /\ objective.set
    /\ last.x = x_vector.v[1] /\ last.x[0] = 2
    /\ QMatrix.m[0][0] = 2 /\ CVector.m[0] = -4 /\ DConstant.d = 3
    /\ last.objective = -2 /\ objective.v[1] = -2

\* The registries, the parameter store and the accumulator dictionaries (of
\* d_dict the list under key 0 and the set of its keys).
declarations == <<variables, constraints, constraints_len, parameters, a_dict, b_dict, c_dict, q_dict, d_dict, d_dict_keys>>

(* C20: a compilation (get_a_matrix, get_b_vector, get_c_vector,            *)
(* get_q_matrix, get_d_constant), evaluate_objective and solve leave the    *)
(* variable registry, the constraint registry, the constraint count, the    *)
(* parameter store and the five accumulator dictionaries unchanged, and a   *)
(* compilation that follows a compilation returns the same A, b, c, Q, d.   *)
C20_CompileLeavesDeclarations ==
    [][/\ last'.op \in {"compile", "solve", "evaluate_objective"} =>
              declarations' = declarations
       /\ (last.op = "compile" /\ last'.op = "compile") =>
              /\ last'.a = last.a /\ last'.b = last.b /\ last'.c = last.c
              /\ last'.q = last.q /\ last'.d = last.d]_vars

-----------------------------------------------------------------------------
\* The cells of A, b, c and Q that some accumulator entry contributes to.
AContributed(r, c) == \E k \in 1..Len(a_dict) : r \in Range(a_dict[k].ci) /\ c \in Range(a_dict[k].vi)
BContributed(r) == \E k \in 1..Len(b_dict) : r \in Range(b_dict[k].ci)
CContributed(c) == \E k \in 1..Len(c_dict) : c \in Range(c_dict[k].vi)
QContributed(r, c) == \E k \in 1..Len(q_dict) : r \in Range(q_dict[k].vi1) /\ c \in Range(q_dict[k].vi2)

(* C21: in every state reached by declarations, also with variables and no  *)
(* constraint and no objective term, the compilation succeeds and returns A *)
(* over (row slots, variable slots), b over the row slots, c over the       *)
(* variable slots, Q over (variable slots, variable slots) and a scalar d,  *)
(* with zero in the cells without a contribution.                           *)
C21_CompileAlwaysSucceeds ==
    last.op # "init" =>
        \A A \in {AMatrix}, b \in {BVector}, c \in {CVector}, Q \in {QMatrix}, d \in {DConstant} :
            /\ ~A.raised /\ ~b.raised /\ ~c.raised /\ ~Q.raised /\ ~d.raised
            /\ DOMAIN A.m = RowSlots /\ \A r \in RowSlots : DOMAIN A.m[r] = VariableSlots
            /\ DOMAIN b.m = RowSlots
            /\ DOMAIN c.m = VariableSlots
            /\ DOMAIN Q.m = VariableSlots /\ \A r \in VariableSlots : DOMAIN Q.m[r] = VariableSlots
            /\ \A r \in RowSlots, j \in VariableSlots : ~AContributed(r, j) => A.m[r][j] = 0
            /\ \A r \in RowSlots : ~BContributed(r) => b.m[r] = 0
            /\ \A j \in VariableSlots : ~CContributed(j) => c.m[j] = 0
            /\ \A r, j \in VariableSlots : ~QContributed(r, j) => Q.m[r][j] = 0

-----------------------------------------------------------------------------
\* A parameter entry of a_dict whose matrix, from the current store, has
\* another shape than the (row slots, variable slots) block of its term, and
\* a parameter entry of b_dict whose values are not one per row slot.
AEntryMisfits(e) ==
    /\ e.par # NoPar /\ e.par \in DOMAIN parameters
    /\ \A m \in {a_entry_matrix(e, parameters)} : NRows(m) # Len(e.ci) \/ NCols(m) # Len(e.vi)

BEntryMisfits(e) ==
    /\ e.par # NoPar /\ e.par \in DOMAIN parameters
    /\ Len(b_entry_values(e, parameters)) # Len(e.ci)

(* C22: when a parameter used in a declared constraint term has been given  *)
(* a value whose shape does not fit the block of the term, larger or        *)
(* smaller, the compilation raises: get_a_matrix for a variable term,       *)
(* get_b_vector for a constant term.                                        *)
C22_MisfitRaisesAtCompile ==
    (last.op = "define_parameter" /\ last.redefined) =>
        /\ (\E k \in 1..Len(a_dict) : a_dict[k].par = last.name /\ AEntryMisfits(a_dict[k]))
              => AMatrix.raised
        /\ (\E k \in 1..Len(b_dict) : b_dict[k].par = last.name /\ BEntryMisfits(b_dict[k]))
              => BVector.raised

-----------------------------------------------------------------------------
\* The rows of a name cannot be resolved into one result table: for a vector
\* x with a value of its own in every slot, get_results() raises on the name
\* or returns cells that are not the rows of the name with their key values.
Unresolvable(name) ==
    \A x \in {[j \in VariableSlots |-> 10 + j]} :
        \A entry \in {variable_result(variables, x, name)} :
            \/ entry.raised
            \/ Range(entry.cells) # StatedResults(name, x)

(* C23: a define_variable call that declares a name again with other key    *)
(* columns than an earlier declaration of the name, so that get_results()   *)
(* can no longer resolve the rows of the name into one table, raises.       *)
C23_InconsistentKeysRejected ==
    (last.op = "define_variable" /\ Unresolvable(last.name)) => last.raised

-----------------------------------------------------------------------------
(* Inputs of the specification SpecExample: the example of the class        *)
(* docstring with the identity as parameter matrix.  The variables a and b  *)
(* over the indices 0 .. ExampleDimension - 1, declared at any time; the    *)
(* declarations b == a, -10 <= a, 10 >= a and the objective sum(b) in the   *)
(* order of the script; compilations and evaluations of the objective.      *)

ExampleDimension == 2   \* the entries of a and of b
ExampleLimit == 10

ExampleIndex == [i \in 1..ExampleDimension |-> i - 1]
Vb1 == VarTerm(Lit(Scalar(1)), Keys("b", <<>>))

ExampleConstraints ==
    <<Call(<<Vb1, Op("=="), Va>>, NoKeys, NoBroadcast),
      Call(<<Cn(0 - ExampleLimit), Op("<="), Va>>, NoKeys, NoBroadcast),
      Call(<<Cn(ExampleLimit), Op(">="), Va>>, NoKeys, NoBroadcast)>>

\* the define_constraint call the script makes next
ExampleNextConstraint ==
    IF calls < Len(ExampleConstraints) THEN {ExampleConstraints[calls + 1]} ELSE {}

ExampleObjective == <<ObjVar(Lit(Scalar(1)), Keys("b", <<>>))>>

ExampleEvaluationPoints == [VariableSlots -> {0 - ExampleLimit, ExampleLimit}]

NextExample ==
    \/ DefineVariable("a", <<Key("idx", ExampleIndex)>>)
    \/ DefineVariable("b", <<Key("idx", ExampleIndex)>>)
    \/ \E c \in ExampleNextConstraint : DefineConstraintCall(c.elements, c.keys, c.broadcast)
    \/ calls = Len(ExampleConstraints) /\ DefineObjectiveCall(ExampleObjective, NoBroadcast)
    \/ \E x \in ExampleEvaluationPoints : EvaluateObjective(x)
    \/ Compile

SpecExample == Init /\ [][NextExample]_vars

\* Every declaration of the script has been made, and none has raised.
ExampleDeclared ==
    /\ Len(variables) = 2 * ExampleDimension
    /\ calls = Len(ExampleConstraints) + 1
    /\ constraints_len = 4 * ExampleDimension
    /\ Len(a_dict) = 6 /\ Len(b_dict) = 2 /\ Len(c_dict) = 1

\* The values tried in every entry of x: the limits, a value beyond each of
\* them and a value between them.
ExampleValues == {0 - ExampleLimit - 1, 0 - ExampleLimit, 0, ExampleLimit, ExampleLimit + 1}
ExampleVectors == [VariableSlots -> ExampleValues]

\* x is in the set {a = b, -10 <= a[i] <= 10}.
ExampleFeasible(x) ==
    \A sa \in {SlotsOf(Keys("a", <<>>))}, sb \in {SlotsOf(Keys("b", <<>>))} :
        \A i \in 1..ExampleDimension :
            /\ x[sb[i]] = x[sa[i]]
            /\ 0 - ExampleLimit <= x[sa[i]] /\ x[sa[i]] <= ExampleLimit

ExampleMinimizer == [j \in VariableSlots |-> 0 - ExampleLimit]
ExampleMinimum == 0 - ExampleLimit * ExampleDimension

-----------------------------------------------------------------------------
\* The back-end that the configuration values name: CVXPY for the interface
\* 'cvxpy', Gurobi for 'direct' with the solver name 'gurobi', CVXPY for
\* 'direct' with another solver name, none for another interface.
StatedBackend(solver_interface, solver_name) ==
    CASE solver_interface = "cvxpy" -> "cvxpy"
      [] solver_interface = "direct" /\ solver_name = "gurobi" -> "gurobi"
      [] solver_interface = "direct" /\ solver_name # "gurobi" -> "cvxpy"
      [] OTHER -> ""

(* C25: solve() takes the back-end that the configuration values name; with *)
(* an interface other than 'cvxpy' and 'direct' it raises and leaves        *)
(* x_vector, mu_vector, objective, results and duals as they were; after a  *)
(* solve() that returns normally the five are set, results is read from     *)
(* x_vector, duals from mu_vector and objective is the objective at         *)
(* x_vector.                                                                *)
C25_BackendFromConfiguration ==
    [][last'.op = "solve" =>
          /\ last'.backend = StatedBackend(last'.solver_interface, last'.solver_name)
          /\ last'.solver_interface \notin {"cvxpy", "direct"} =>
                /\ last'.raised /\ ~last'.called
                /\ solution' = solution
          /\ ~last'.raised =>
                /\ x_vector'.set /\ mu_vector'.set /\ objective'.set
                /\ results'.set /\ duals'.set
                /\ \A res \in {get_results(variables', x_vector'.v[1])} :
                      ~res.raised /\ results'.v[1] = res.entries
                /\ \A dua \in {get_duals(constraints', mu_vector'.v[1])} :
                      ~dua.raised /\ duals'.v[1] = dua.entries
                /\ objective'.v[1] =
                      evaluate_objective(CVector', QMatrix', DConstant', x_vector'.v[1]).objective]_vars

\* A solve() under the interface 'direct' with a solver other than Gurobi
\* has returned normally, through CVXPY.
C25_FallbackSolved ==
    /\ last.op = "solve" /\ ~last.raised
    /\ last.solver_interface = "direct" /\ last.solver_name = "other"
    /\ last.backend = "cvxpy" /\ last.status = "optimal"
    /\ x_vector.set /\ results.set /\ duals.set

-----------------------------------------------------------------------------
(* C26: a define_constraint call that raises leaves the A-term and b-term   *)
(* accumulators, the constraint registry and the constraint count as they   *)
(* were before the call.                                                    *)
C26_RaisingCallLeavesNoTrace ==
    [][(last'.op = "define_constraint" /\ last'.raised) =>
          /\ a_dict' = a_dict /\ b_dict' = b_dict
          /\ constraints' = constraints /\ constraints_len' = constraints_len]_vars

-----------------------------------------------------------------------------
(* Inputs of the specification SpecEmpty: the variables a[0], a[1] and b,   *)
(* and define_constraint and define_objective calls with a term of a whose  *)
(* key idx has the empty list as value, before and after a term of b.       *)

VaEmpty == VarTerm(Lit(Scalar(1)), Keys("a", <<Key("idx", <<>>)>>))

EmptyConstraintCalls ==
    {Call(<<Vb, VaEmpty, Op("<="), C3>>, NoKeys, NoBroadcast),
     Call(<<VaEmpty, Vb, Op("<="), C3>>, NoKeys, NoBroadcast),
     Call(<<Vb, Op("=="), VaEmpty, C3>>, NoKeys, NoBroadcast),
     Call(<<Vb, Op("<="), C3>>, NoKeys, NoBroadcast),
     Call(<<Va, Op(">="), C3>>, NoKeys, NoBroadcast)}

EmptyObjectiveCalls ==
    {<<ObjVar(Lit(Scalar(1)), Keys("b", <<>>)),
       ObjVar(Lit(Scalar(1)), Keys("a", <<Key("idx", <<>>)>>))>>,
     <<ObjQuad(Lit(Scalar(1)), Keys("b", <<>>), Keys("b", <<>>)),
       ObjQuad(Lit(Scalar(1)), Keys("a", <<Key("idx", <<>>)>>), Keys("b", <<>>))>>,
     <<ObjVar(Lit(Scalar(1)), Keys("b", <<>>))>>}

NextEmpty ==
    \/ DefineVariable("a", <<Key("idx", IdxValues)>>)
    \/ DefineVariable("b", <<>>)
    \/ \E c \in EmptyConstraintCalls : DefineConstraint(c.elements, c.keys, c.broadcast)
    \/ \E elements \in EmptyObjectiveCalls : DefineObjective(elements, NoBroadcast)

SpecEmpty == Init /\ [][NextEmpty]_vars

\* A keys dictionary with an empty list (tuple, index, array) as a value.
HasEmptyKeyValue(keys) ==
    ~keys.none /\ \E k \in 1..Len(keys.ks) : keys.ks[k].list /\ keys.ks[k].vals = <<>>

\* The variable terms of a define_constraint / define_objective call that
\* have an empty key value, and the call without them.
EmptyConstraintTerm(e) == e.type = "variable" /\ HasEmptyKeyValue(e.keys)
EmptyObjectiveTerm(e) ==
    e.type = "variable" /\ (HasEmptyKeyValue(e.keys) \/ HasEmptyKeyValue(e.keys2))

RECURSIVE WithoutEmptyConstraintTerms(_)
WithoutEmptyConstraintTerms(elements) ==
    IF elements = <<>> THEN <<>>
    ELSE (IF EmptyConstraintTerm(elements[1]) THEN <<>> ELSE <<elements[1]>>)
         \o WithoutEmptyConstraintTerms(Tail(elements))

RECURSIVE WithoutEmptyObjectiveTerms(_)
WithoutEmptyObjectiveTerms(elements) ==
    IF elements = <<>> THEN <<>>
    ELSE (IF EmptyObjectiveTerm(elements[1]) THEN <<>> ELSE <<elements[1]>>)
         \o WithoutEmptyObjectiveTerms(Tail(elements))

(* C27: a define_constraint or define_objective call with a variable term   *)
(* one of whose key values is empty ignores the term: when the call without *)
(* the term does not raise, the call does not raise either and adds to the  *)
(* A, b, c, Q and d accumulators what the call without the term adds.       *)
C27_EmptyKeyTermIgnored ==
    [][/\ (/\ last'.op = "define_constraint"
           /\ \E i \in 1..Len(last'.elements) : EmptyConstraintTerm(last'.elements[i])) =>
              \A st \in {define_constraint(variables, parameters, ConstraintState,
                                           WithoutEmptyConstraintTerms(last'.elements),
                                           last'.keys, last'.broadcast)} :
                  ~st.raised =>
                      /\ ~last'.raised
                      /\ a_dict' = st.a_dict /\ b_dict' = st.b_dict
                      /\ constraints_len' = st.constraints_len
       /\ (/\ last'.op = "define_objective"
           /\ \E i \in 1..Len(last'.elements) : EmptyObjectiveTerm(last'.elements[i])) =>
              \A ost \in {define_objective(variables, parameters, ObjectiveState,
                                           WithoutEmptyObjectiveTerms(last'.elements),
                                           last'.broadcast)} :
                  ~ost.raised =>
                      /\ ~last'.raised
                      /\ c_dict' = ost.c_dict /\ q_dict' = ost.q_dict /\ d_dict' = ost.d_dict]_vars

-----------------------------------------------------------------------------
(* Inputs of the specification SpecRegistry: the variable a on two          *)
(* timesteps, the bound a >= 4 without keys, the bound a >= 5 with the      *)
(* timesteps as keys, the equality a[1] == 5 with its timestep as key, the  *)
(* objective a[1] + a[2], solves on both back-ends and get_duals() calls.   *)

RegistryConstraintCalls ==
    {Call(<<Va, Op(">="), Cn(4)>>, NoKeys, NoBroadcast),
     Call(<<Va, Op(">="), Cn(5)>>, OnTimesteps("limit"), NoBroadcast),
     Call(<<Va1, Op("=="), Cn(5)>>, Keys("fix", <<Key("timestep", <<1>>)>>), NoBroadcast)}

NextRegistry ==
    \/ DefineVariable("a", <<Key("timestep", TimestepValues)>>)
    \/ \E c \in RegistryConstraintCalls : DefineConstraint(c.elements, c.keys, c.broadcast)
    \/ \E elements \in DualsObjectiveCalls : DefineObjective(elements, NoBroadcast)
    \/ \E configuration \in DualsConfigurations : Solve(configuration[1], configuration[2])
    \/ GetDuals

SpecRegistry == Init /\ [][NextRegistry]_vars

\* The row slots under which the accumulators hold terms.
AccumulatorSlots == Slots(a_dict, 1) \cup Slots(b_dict, 1)

\* The index labels of the registry rows are pairwise distinct row slots
\* below the constraint count, and so is every row slot of an accumulator key.
RegistryConsistent ==
    /\ \A i, j \in 1..Len(constraints) : i # j => constraints[i].label # constraints[j].label
    /\ \A i \in 1..Len(constraints) : constraints[i].label \in RowSlots
    /\ AccumulatorSlots \subseteq RowSlots

\* Row r of A has entries only for variables of the timestep t.
RowIsOfTimestep(A, r, t) ==
    \A c \in VariableSlots : A[r][c] # 0 => variables[c + 1].timestep = t

\* The tables of get_duals() are tables of registry names, with at most one
\* cell per registry row of the name.
DualsFromRegistry(entries) ==
    \A n \in 1..Len(entries) :
        /\ entries[n].name \in ConstraintNames
        /\ Len(entries[n].cells) <= Cardinality(RowsOfName(entries[n].name))

(* C28: a successful define_constraint call made in a state whose registry  *)
(* labels and accumulator row slots are distinct slots below the constraint *)
(* count leaves such a state: the call writes the row slots from the old    *)
(* constraint count to the new one; with keys it adds one registry row per  *)
(* new slot, labelled with the slot whose row of A it wrote for the key     *)
(* values of the registry row; without keys it consumes slots and adds no   *)
(* registry row; and the tables of get_duals() hold registry names only.    *)
C28_RegistryLabelsAreRowSlots ==
    [][/\ (RegistryConsistent /\ last'.op = "define_constraint" /\ ~last'.raised) =>
              /\ RegistryConsistent'
              /\ constraints_len' > constraints_len
              /\ Slots(a_dict', Len(a_dict) + 1) = constraints_len..(constraints_len' - 1)
              /\ Slots(b_dict', Len(b_dict) + 1) \subseteq constraints_len..(constraints_len' - 1)
              /\ SubSeq(constraints', 1, Len(constraints)) = constraints
              /\ IF last'.keys.none
                 THEN constraints' = constraints
                 ELSE /\ {constraints'[i].label : i \in (Len(constraints) + 1)..Len(constraints')}
                            = constraints_len..(constraints_len' - 1)
                      /\ Len(constraints') - Len(constraints) = constraints_len' - constraints_len
                      /\ \A A \in {AMatrix'} :
                            ~A.raised =>
                                \A i \in (Len(constraints) + 1)..Len(constraints') :
                                    RowIsOfTimestep(A.m, constraints'[i].label,
                                                    constraints'[i].timestep)
       /\ (last'.op = "get_duals" /\ ~last'.raised) => DualsFromRegistry(last'.entries)
       /\ (last'.op = "solve" /\ ~last'.raised) => DualsFromRegistry(duals'.v[1])]_vars

\* The bound without keys took the row slots 0 and 1, the bound with keys
\* the slots 2 and 3, and get_duals() has returned the table of the latter.
C28_KeyedAfterUnkeyed ==
    /\ RegistryConsistent
    /\ last.op = "get_duals" /\ ~last.raised
    /\ constraints_len = 4 /\ Len(constraints) = 2
    /\ {constraints[i].label : i \in 1..Len(constraints)} = {2, 3}
    /\ Len(last.entries) = 1 /\ last.entries[1].name = "limit"
    /\ Len(last.entries[1].cells) = 2

-----------------------------------------------------------------------------
(* Inputs of the specification SpecEquality: the variable a on two          *)
(* timesteps, the equalities a[1] == 5 and a[2] == 5 declared under one     *)
(* name in two calls, each with its timestep as key, the equality           *)
(* a[1] + a[2] == 10 with a name as only key, the objective a[1] + a[2],    *)
(* solves on both back-ends and get_duals() calls.                          *)

Va2 == VarTerm(Lit(Scalar(1)), Keys("a", <<Key("timestep", <<2>>)>>))

EqualityConstraintCalls ==
    {Call(<<Va1, Op("=="), Cn(5)>>, Keys("fix", <<Key("timestep", <<1>>)>>), NoBroadcast),
     Call(<<Va2, Op("=="), Cn(5)>>, Keys("fix", <<Key("timestep", <<2>>)>>), NoBroadcast),
     Call(<<VaSum, Op("=="), Cn(10)>>, Keys("total", <<>>), NoBroadcast)}

NextEquality ==
    \/ DefineVariable("a", <<Key("timestep", TimestepValues)>>)
    \/ \E c \in EqualityConstraintCalls : DefineConstraint(c.elements, c.keys, c.broadcast)
    \/ \E elements \in DualsObjectiveCalls : DefineObjective(elements, NoBroadcast)
    \/ \E configuration \in DualsConfigurations : Solve(configuration[1], configuration[2])
    \/ GetDuals

SpecEquality == Init /\ [][NextEquality]_vars

ConstraintTypes == {"<=", ">=", "==>=", "==<="}

\* The registry rows of a name with a constraint type and the key values of
\* the registry row i.
RowsOfType(name, constraint_type) ==
    {i \in RowsOfName(name) : constraints[i].constraint_type = constraint_type}
SameKeys(i, j) ==
    constraints[i].timestep = constraints[j].timestep /\ constraints[i].idx = constraints[j].idx

\* The name is declared through equalities only, once per key combination:
\* every key combination has one '==>=' row and one '==<=' row.
EqualityPairs(name) ==
    /\ RowsOfName(name) = RowsOfType(name, "==>=") \cup RowsOfType(name, "==<=")
    /\ \A i \in RowsOfName(name) :
          /\ Cardinality({j \in RowsOfType(name, "==>=") : SameKeys(i, j)}) = 1
          /\ Cardinality({j \in RowsOfType(name, "==<=") : SameKeys(i, j)}) = 1

(* C29: an equality declaration with keys adds to the registry, for every   *)
(* key combination of the call, one '==>=' row and one '==<=' row; every    *)
(* registry row has a constraint type of <=, >=, ==>=, ==<=; and for a name *)
(* declared through equalities only, once per key combination, get_duals()  *)
(* returns for every key combination minus the sum of the '==>=' dual and   *)
(* the '==<=' dual of the rows with these key values, labelled with them.   *)
C29_EqualityRowsPaired ==
    [][/\ \A i \in 1..Len(constraints') : constraints'[i].constraint_type \in ConstraintTypes
       /\ (/\ last'.op = "define_constraint" /\ ~last'.raised /\ ~last'.keys.none
           /\ OperatorOf(last'.elements) = "==") =>
              \A rows \in {product(ConRow(last'.keys.name, ""), last'.keys.ks)} :
                  /\ Len(constraints') = Len(constraints) + 2 * Len(rows)
                  /\ \A k \in 1..Len(rows) :
                        /\ constraints'[Len(constraints) + k]
                              = [rows[k] EXCEPT !.constraint_type = "==>=",
                                                !.label = constraints_len + k - 1]
                        /\ constraints'[Len(constraints) + Len(rows) + k]
                              = [rows[k] EXCEPT !.constraint_type = "==<=",
                                                !.label = constraints_len + Len(rows) + k - 1]
       /\ (last'.op = "get_duals" /\ DualsAreRegular' /\ constraints' # <<>>
           /\ \A name \in ConstraintNames' : EqualityPairs(name)') =>
              /\ ~last'.raised
              /\ \A entries \in {last'.entries} :
                    /\ {entries[n].name : n \in 1..Len(entries)} = ConstraintNames'
                    /\ \A n \in 1..Len(entries), mu \in {mu_vector'.v[1].m} :
                          /\ Len(entries[n].cells)
                                = Cardinality(RowsOfType(entries[n].name, "==>=")')
                          /\ Range(entries[n].cells) = StatedDuals(entries[n].name, mu)']_vars

-----------------------------------------------------------------------------
(* Declarations and compilations in several threads.  The class holds no    *)
(* lock.  A define_constraint call is taken in the steps of                 *)
(* define_constraint_low_level: for every block of rows (one for an         *)
(* inequality, two for an equality) first the terms are appended to a_dict  *)
(* and b_dict, then the registry rows are appended and constraints_len is   *)
(* increased.  A compilation is taken getter by getter.  The position of    *)
(* every thread is kept in the field threads of the record last: the blocks *)
(* of the declaration in progress that are not yet counted, and for every   *)
(* compiling thread the getters it has called with what they returned.      *)
(* Inputs of the specification SpecConcurrent: the scalar variable x, the   *)
(* declarations of SpecSolve and two compiling threads.                     *)

CompilerIds == {1, 2}

NoThreads ==
    [blocks |-> <<>>, appended |-> FALSE, before |-> [a |-> 0, b |-> 0],
     compilers |-> [t \in CompilerIds |-> [got |-> <<>>, clean |-> TRUE]]]

Threads == IF "threads" \in DOMAIN last THEN last.threads ELSE NoThreads

\* A define_constraint call has blocks that are not yet counted.
Declaring == Threads.blocks # <<>>

\* A declaration step was taken: the compilations under way and the finished
\* ones no longer belong to the declarations as they stand.
Dirty(th) ==
    [th EXCEPT !.compilers = [t \in CompilerIds |->
                  [got |-> th.compilers[t].got, clean |-> th.compilers[t].got = <<>>]]]

\* The constraint count is increased together with the terms (not what the
\* code does).
appended_state_counted(st, block) ==
    [st EXCEPT !.a_dict = block.a_dict, !.b_dict = block.b_dict,
               !.constraints_len = block.constraints_len]

\* The attributes after "Append A matrix entry" and "Append b vector entry"
\* of a block and before its "self.constraints_len +=".
appended_state(st, block) ==
    [st EXCEPT !.a_dict = block.a_dict, !.b_dict = block.b_dict]

\* The blocks of rows of a define_constraint call, each given by the state
\* after it: none when the call raises before its first block.
low_level_blocks(table, store, st, elements, keys, broadcast) ==
    LET agg == aggregate_elements(elements)
    IN  IF \/ agg.raised
           \/ agg.operator \notin {"==", "<=", ">="}
           \/ Len(agg.variables) = 0
           \/ ~keys.none /\ keys.name = NoName
        THEN <<>>
        ELSE IF agg.operator = "=="
        THEN LET upper == define_inequality(table, store, st, agg.variables, ">=",
                                            agg.constants, keys, "==>=", broadcast)
             IN  IF upper.raised THEN <<upper>>
                 ELSE <<upper, define_inequality(table, store, upper, agg.variables, "<=",
                                                 agg.constants, keys, "==<=", broadcast)>>
        ELSE <<define_inequality(table, store, st, agg.variables, agg.operator,
                                 agg.constants, keys, agg.operator, broadcast)>>

\* define_variable in the declaring thread.
DeclareVariable(name, keys) ==
    /\ ~Declaring
    /\ Len(define_variable(variables, name, keys)) <= MaxVariables
    /\ variables' = define_variable(variables, name, keys)
    /\ last' = [op |-> "define_variable", raised |-> FALSE, threads |-> Dirty(Threads)]
    /\ UNCHANGED <<constraints, constraints_len, parameters,
                   a_dict, b_dict, c_dict, q_dict, d_dict, d_dict_keys, solution, calls>>

\* define_objective in the declaring thread.
DeclareObjective(elements, broadcast) ==
    /\ ~Declaring
    /\ calls < MaxCalls
    /\ LET ost == define_objective(variables, parameters, ObjectiveState,
                                   elements, broadcast)
       IN  /\ c_dict' = ost.c_dict
           /\ q_dict' = ost.q_dict
           /\ d_dict' = ost.d_dict
           /\ d_dict_keys' = IF ost.d_dict # d_dict THEN {0} ELSE d_dict_keys
           /\ last' = [op |-> "define_objective", raised |-> ost.raised,
                       threads |-> Dirty(Threads)]
    /\ calls' = calls + 1
    /\ UNCHANGED <<variables, parameters, constraints, constraints_len, a_dict, b_dict,
                   solution>>

\* The terms of the next block are appended to a_dict and b_dict.
AppendBlock(th, blocks) ==
    /\ \A st \in {appended_state(ConstraintState, blocks[1])} :
          /\ a_dict' = st.a_dict
          /\ b_dict' = st.b_dict
          /\ constraints_len' = st.constraints_len
    /\ last' = [op |-> "define_constraint", raised |-> FALSE,
                threads |-> [Dirty(th) EXCEPT !.blocks = blocks, !.appended = TRUE,
                                              !.before = [a |-> Len(a_dict), b |-> Len(b_dict)]]]
    /\ UNCHANGED <<variables, parameters, constraints, c_dict, q_dict, d_dict, d_dict_keys,
                   solution>>

\* define_constraint is entered and runs up to the end of "Process constants"
\* of its first block.
EnterDefineConstraint(elements, keys, broadcast) ==
    /\ ~Declaring
    /\ calls < MaxCalls
    /\ calls' = calls + 1
    /\ \A blocks \in {low_level_blocks(variables, parameters, ConstraintState,
                                       elements, keys, broadcast)} :
          IF blocks = <<>>
          THEN /\ last' = [op |-> "define_constraint", raised |-> TRUE,
                           threads |-> Dirty(Threads)]
               /\ UNCHANGED <<variables, parameters, constraints, constraints_len,
                              a_dict, b_dict, c_dict, q_dict, d_dict, d_dict_keys, solution>>
          ELSE AppendBlock(Threads, blocks)

\* The second block of an equality declaration runs up to the end of its
\* "Process constants".
AppendTerms ==
    /\ Declaring
    /\ ~Threads.appended
    /\ AppendBlock(Threads, Threads.blocks)
    /\ UNCHANGED calls

\* "Append constraints index entries" of the block: the registry rows and
\* "self.constraints_len +=", or the raise of the block.
IncreaseConstraintsLen ==
    /\ Threads.appended
    /\ \A block \in {Threads.blocks[1]} :
          /\ constraints' = block.constraints
          /\ constraints_len' = block.constraints_len
          /\ last' = [op |-> "define_constraint", raised |-> block.raised,
                      threads |-> [Dirty(Threads) EXCEPT
                          !.blocks = IF block.raised THEN <<>> ELSE Tail(@),
                          !.appended = FALSE]]
    /\ UNCHANGED <<variables, parameters, a_dict, b_dict, c_dict, q_dict, d_dict,
                   d_dict_keys, solution, calls>>

Getters == <<"get_a_matrix", "get_b_vector", "get_c_vector", "get_q_matrix", "get_d_constant">>

\* What the k-th getter returns when it is called now.
Getter(k) ==
    CASE k = 1 -> AMatrix
      [] k = 2 -> BVector
      [] k = 3 -> CVector
      [] k = 4 -> QMatrix
      [] k = 5 -> DConstant

\* The accumulator holds an entry with a row slot that is not smaller than
\* the constraint count.
SlotsBeyond(dict, len_) ==
    \E k \in 1..Len(dict) : \E i \in 1..Len(dict[k].ci) : dict[k].ci[i] >= len_

\* The compilation of a thread is over: every getter has returned or one has
\* raised.
Finished(c) ==
    \/ Len(c.got) = Len(Getters)
    \/ c.got # <<>> /\ c.got[Len(c.got)].value.raised

\* The thread t calls its next getter; a thread that has finished a
\* compilation starts the next one.
CompileStep(t) ==
    /\ \A th \in {Threads} :
       \A got \in {IF Finished(th.compilers[t]) THEN <<>> ELSE th.compilers[t].got} :
       \A k \in {Len(got) + 1} :
          /\ last' = [op |-> Getters[k], raised |-> Getter(k).raised,
                      threads |-> [th EXCEPT !.compilers[t] =
                          [got |-> Append(got,
                              [value |-> Getter(k),
                               window |-> /\ th.appended
                                          /\ \/ k = 1 /\ Len(a_dict) > th.before.a
                                             \/ k = 2 /\ Len(b_dict) > th.before.b,
                               beyond |-> \/ k = 1 /\ SlotsBeyond(a_dict, constraints_len)
                                          \/ k = 2 /\ SlotsBeyond(b_dict, constraints_len)]),
                           clean |-> IF k = 1 THEN th.blocks = <<>>
                                     ELSE th.compilers[t].clean]]]
          /\ d_dict_keys' = IF k = 5 THEN {0} ELSE d_dict_keys
    /\ UNCHANGED <<variables, constraints, constraints_len, parameters,
                   a_dict, b_dict, c_dict, q_dict, d_dict, solution, calls>>

NextConcurrent ==
    \/ DeclareVariable("x", <<>>)
    \/ \E elements \in SolveObjectiveCalls : DeclareObjective(elements, NoBroadcast)
    \/ \E c \in SolveConstraintCalls : EnterDefineConstraint(c.elements, c.keys, c.broadcast)
    \/ AppendTerms
    \/ IncreaseConstraintsLen
    \/ \E t \in CompilerIds : CompileStep(t)

SpecConcurrent == Init /\ [][NextConcurrent]_vars

(* C30: a get_a_matrix or get_b_vector call that runs after a               *)
(* define_constraint call has appended terms to the accumulator and before  *)
(* the call has increased constraints_len observes accumulator entries with *)
(* row slots that are not smaller than constraints_len; and a compilation   *)
(* that runs while no declaration is in progress, however its getter calls  *)
(* interleave with those of another thread, returns the A, b, c, Q and d of *)
(* a sequential compilation of the declarations.                            *)
C30_CompileDuringAndAfterDeclaration ==
    \A t \in CompilerIds : \A c \in {Threads.compilers[t]} :
        /\ \A k \in 1..Len(c.got) : c.got[k].window => c.got[k].beyond
        /\ c.clean => \A k \in 1..Len(c.got) : c.got[k].value = Getter(k)

\* One thread has compiled A between the append and the count of a block and
\* another thread has compiled A, b, c, Q and d after the declarations.
C30_TornAndSequentialCompile ==
    \E t1, t2 \in CompilerIds :
        /\ t1 # t2
        /\ Threads.compilers[t1].got # <<>>
        /\ Threads.compilers[t1].got[1].window
        /\ Threads.compilers[t1].got[1].beyond
        /\ Threads.compilers[t1].got[1].value.raised
        /\ Threads.compilers[t2].clean
        /\ Len(Threads.compilers[t2].got) = Len(Getters)
        /\ \A k \in 1..Len(Getters) : ~Threads.compilers[t2].got[k].value.raised

====
